---- MODULE Spec2Model ----
(***************************************************************************)
(* Verification model of the OpenMATERIAL bidirectional path tracer:       *)
(*   - BDPTRenderer (render / renderRow / computePaths / computePath /     *)
(*     sceneIntersect / allocatePathBufs)                                  *)
(*   - RenderScene (allocate / setters / commitScene / buildEmbreeScene)   *)
(*   - RenderMesh (commitMesh / isValid / reset)                           *)
(*   - PinholeCamera (init / getRay / hit / stop), RandomSampler (rand)    *)
(* Radiance and throughput are one-channel naturals in units of the        *)
(* cut-off intensity; ray parameters are naturals in units of the          *)
(* self-intersection epsilon step.                                         *)
(***************************************************************************)
EXTENDS Integers, Sequences, FiniteSets, TLC

\* ------------------------------------------------------------------ bounds
MaxCores   == 2     \* largest numberOfCores tried
MaxHeight  == 2     \* largest image height tried
MaxWidth   == 1     \* largest image width tried
MaxSamples == 1     \* largest samplesPerPixel tried
MaxBounces == 2     \* largest cameraBouncesN / lightBouncesN tried
MaxPathLen == 3     \* largest maxPathLength tried
MaxSurfaces == 11   \* longest run of masked surfaces along one ray
MaxMeshes == 1      \* largest meshN given to allocate
MaxInstances == 1   \* largest instN given to allocate
MaxMaterials == 1   \* largest matN given to allocate
MaxLights == 1      \* largest ligN given to allocate
MaxSampledLights == 4 \* largest number of lights given to the lights sampler
MaxPower   == 2     \* largest light power tried
RndDen     == 6     \* the random values tried are 0/RndDen .. (RndDen-1)/RndDen
MaxPixels  == 2     \* number of pixels of the camera's image
MaxHits    == 3     \* largest number of hit() calls that reach the image between init() and stop()
MaxRenders == 2     \* render() calls on one sensor (one per view point)
MaxRadiance == 2    \* largest radiance given to hit() or sent by a light
MaxDist    == 2     \* largest distance between a light and a surface, in whole units
DistDen    == 2     \* distances are multiples of 1 / DistDen
MaxProviders == 2   \* longest list of subject providers given to fcSetSubject
MaxCategory == 1    \* largest category size of a MaterialIDFC
ChannelMax == 2     \* largest value of a colour channel (255 in the code)
EnumeratorRange == 1024 \* number of values of an Enumerator (2^32 in the code)

VARIABLES
    \* --- RendererParameters / BDPTRenderer
    m_pParams,      \* [numberOfCores, cameraBouncesN, lightBouncesN, maxPathLength, samplesPerPixel]
    m_iCoresN,      \* number of render threads of the running render()
    m_aiCurRow,     \* std::atomic_int row counter
    m_pPathMem,     \* number of BDPTPathPart entries allocated (0 = nullptr)
    m_ppCPBuf,      \* tid -> offset of the thread's camera buffer in m_pPathMem
    m_ppLPBuf,      \* tid -> offset of the thread's light buffer in m_pPathMem
    mainPc,         \* position of the thread that runs render()
    spawned,        \* the lambda's tid counter in render()
    joined,         \* number of threads joined so far
    thr,            \* tid -> [pc, tid, row, j, k] : position of each renderRow thread
    \* --- RenderSensor (PinholeCamera)
    sensor,         \* [width, height, m_pImage : pixel id -> number of hit() calls]
    \* --- RenderScene as seen by the renderer
    m_iLightsN,     \* lightsCount()
    \* --- history of the run
    m_pBackground,  \* TRUE when a background is set (getBackgound() != nullptr)
    \* --- history of the run
    rowClaims,      \* row -> sequence of tids that claimed it
    writes,         \* set of <<location, tid>> : memory written (or path memory touched) by render threads
    renders,        \* number of render() calls made so far
    \* --- one call of computePaths (locals and the thread's two path buffers)
    ppc,            \* position inside computePaths
    lpBuf,          \* m_ppLPBuf[tid][.]
    cpBuf,          \* m_ppCPBuf[tid][.]
    lpsource,       \* TRUE when tryComputeLightPath returned a light
    lp_len, cp_len, cp_exit,
    radiance,       \* the accumulated radiance (before the final scaling)
    totalPN,
    ci, cj,         \* the connection loops' i and j
    result,         \* [num, den] : radiance returned = num / den
    contrib,        \* history: number of terms added to radiance (the camera path's own
                    \* background / emission counted once, as totalPN counts it)
    connected,      \* history: <<i, j>> pairs whose connection added radiance
    considered,     \* history: <<i, j>> pairs the connection loops evaluated
    \* --- one call of sceneIntersect
    surfaces,       \* what lies along the ray: surfaces[t] is the kind of surface at ray parameter t
    rhit,           \* RTCRayHit: [tnear, tfar, geomID, masked]
    t1,             \* the caller's tfar, saved on entry
    itr,            \* remaining iterations
    ipc,            \* "query" while looping, "returned" afterwards
    iresult,        \* [hit, t, masked] : return value and the surface point reported
    queries,        \* number of rtcIntersect1 calls sceneIntersect has made
    missed,         \* the last rtcIntersect1 call found no surface in the range of the ray
    \* --- RenderScene
    m_embreeDevice, \* TRUE when rtcNewDevice gave a device
    m_iMeshesN,
    m_pMeshes,      \* mesh index -> RenderMesh
    m_iInstancesN,
    m_pInstances,   \* instance index -> m_iMeshId
    m_iMaterialsN,
    m_ppMaterials,  \* slot -> "null", "material" or "missing"; <<>> before allocate
    m_ppLights,     \* slot -> "null" or "light"
    m_embreeScene,  \* instance index -> mesh index, the instances attached by the build
    m_bTraceReady,
    spc,            \* "ready", "crashed" when a call did not return, "corrupted" when
                    \* a call wrote outside its buffer
    lastOp,         \* the last call made on the scene
    commitRan,      \* the last commitScene call went past its first line
    commitRet,      \* "none", "true", "false" : what the last commitScene call returned
    hasLog,         \* the last commitScene call was given a log
    log,            \* the list the last commitScene call was given, as the call left it
    \* --- DistanceRandom (RenderScene::m_lightsSampler) and one call of sampleLight
    m_iN,
    m_maxD,
    m_distances,    \* index -> distance; the CDF after calculate()
    powers,         \* history: the distances as setDistance() gave them
    lsPc,           \* "set", "calculated", "sampled"
    rndVal,         \* the numerator of the random value of the last sampleLight call
    sampleId,       \* the index the last sampleLight call got from getRandom
    samplePdf,      \* [num, den] : the pdf the last sampleLight call reported = num / den
    \* --- PinholeCamera: init, hit, stop
    m_pImage,       \* pixel id -> [rgb : [num, den], a] : colour num / den (one channel) and alpha
    camPc,          \* "new", "init", "stopped"
    hitRads,        \* history: pixel id -> the radiances hit() added to it since init()
    \* --- computeLightAttenuation and the connection of a light to a hit pixel
    lightDistanceAttenuation,   \* the mode of the last render: 0, 1, 2
    lightMinDistance,           \* numerator of lightMinDistance
    attDist,        \* numerator of the distance between the light and the surface point
    attRange,       \* numerator of the light's attenuation distance, FLT_MAX for none
    attLight,       \* what the light sends along the connection, times brdf, cosine and throughput
    pixRad,         \* mode -> radiance of the pixel as rendered with that mode, NotRendered before
    \* --- FCHandler and the false-colour subjects
    m_pSubject,     \* [name, m_vHashedColors] : the subject installed, NoSubject for nullptr
    fcName,         \* the name given to the last fcSetSubject call
    fcList,         \* the providers given to the last fcSetSubject call, by subject name
    fcArg,          \* the Enumerator given to the last paint call
    fcColor         \* the colour the last paint call assigned

cfgVars == <<m_pParams, m_iLightsN, m_pBackground>>

renderVars == <<m_iCoresN, m_aiCurRow, m_pPathMem, m_ppCPBuf, m_ppLPBuf,
                mainPc, spawned, joined, thr, sensor, rowClaims, writes, renders>>

pathVars == <<ppc, lpBuf, cpBuf, lpsource, lp_len, cp_len, cp_exit, radiance, totalPN,
              ci, cj, result, contrib, connected, considered>>

isectVars == <<surfaces, rhit, t1, itr, ipc, iresult, queries, missed>>

sceneVars == <<m_embreeDevice, m_iMeshesN, m_pMeshes, m_iInstancesN, m_pInstances,
               m_iMaterialsN, m_ppMaterials, m_ppLights, m_embreeScene, m_bTraceReady,
               spc, lastOp, commitRan, commitRet, hasLog, log>>

samplerVars == <<m_iN, m_maxD, m_distances, powers, lsPc, rndVal, sampleId, samplePdf>>

cameraVars == <<m_pImage, camPc, hitRads>>

attVars == <<lightDistanceAttenuation, lightMinDistance, attDist, attRange, attLight, pixRad>>

fcVars == <<m_pSubject, fcName, fcList, fcArg, fcColor>>

auxVars == <<samplerVars, cameraVars, attVars, fcVars>>

vars == <<cfgVars, renderVars, pathVars, isectVars, sceneVars, auxVars>>

\* ------------------------------------------------------------------ helpers
min(a, b) == IF a < b THEN a ELSE b
max(a, b) == IF a > b THEN a ELSE b
clamp(value, lower, upper) == max(lower, min(value, upper))

Tids == 0 .. (MaxCores - 1)

\* ---------------------------------------------------- BDPTRenderer::computePath
\* Outcome of the intersection and material query of one bounce:
\*   hit  : sceneIntersect found a surface
\*   bc   : brdf * |cos| of the bounce
\*   erad : emitted radiance of the surface (camera paths)
\*   att  : light attenuation term (used at the first hit of a light path)
Bounce(h, b, e, a) == [hit |-> h, bc |-> b, erad |-> e, att |-> a]
Miss == Bounce(FALSE, 0, 0, 0)

RayCutPixValue == 1     \* rayCutPixValue in radiance units

\* a slot of a path buffer; calls are the material calls made on its surface point
NoPart == [m_outFactor |-> 0, m_outRad |-> 0, set |-> FALSE, calls |-> <<>>]

MaterialCallsBrdfFirst == <<"getRayAndBrdf", "modifyFrame">>
\* mat->modifyFrame(&P[i].m_surfPoint); mat->getRayAndBrdf(..., &P[i].m_surfPoint, ...)
MaterialCalls == <<"modifyFrame", "getRayAndBrdf">>

LoopContinuesOffByOne(i, max_n) == i <= max_n
\* the loop condition of computePath's for loop
LoopContinues(i, max_n) == i < max_n

RECURSIVE computePathLoop(_, _, _, _, _, _, _, _)
computePathLoop(i, max_n, P, Rad, n, inv, out, rDterm) ==
    IF ~LoopContinues(i, max_n)
    THEN [P |-> P, n |-> n, sceneExit |-> FALSE, Rad |-> Rad]
    ELSE IF ~out[i].hit
    THEN [P |-> P, n |-> n, sceneExit |-> TRUE, Rad |-> Rad]
    ELSE LET factor == P[i-1].m_outFactor * out[i].bc IN
         IF inv
         THEN LET Pc == [P EXCEPT ![i] = [m_outFactor |-> factor, m_outRad |-> 0, set |-> TRUE,
                                          calls |-> MaterialCalls]]
              IN computePathLoop(i + 1, max_n, Pc, Rad + factor * out[i].erad, n + 1, inv, out, rDterm)
         ELSE LET rD   == IF i = 1 THEN out[i].att ELSE rDterm
                  orad == factor * Rad * rD
                  Pl   == [P EXCEPT ![i] = [m_outFactor |-> factor, m_outRad |-> orad, set |-> TRUE,
                                          calls |-> MaterialCalls]]
              IN IF orad < RayCutPixValue
                 THEN [P |-> Pl, n |-> n, sceneExit |-> FALSE, Rad |-> Rad]
                 ELSE computePathLoop(i + 1, max_n, Pl, Rad, n + 1, inv, out, rDterm)

\* computePath(P, max_n, O, R, Rad, n, inv, attD): the buffer has MaxBounces + 2
\* slots in the model so that an access past max_n - 1 is visible.
computePath(max_n, Rad, inv, out) ==
    LET P0 == [i \in 0 .. (MaxBounces + 1) |->
                  IF i = 0 THEN [m_outFactor |-> 1, m_outRad |-> Rad, set |-> TRUE, calls |-> <<>>]
                  ELSE NoPart]
    IN computePathLoop(1, max_n, P0, Rad, 1, inv, out, 1)

\* indices of the buffer computePath wrote
Touched(P) == {i \in DOMAIN P : P[i].set}

\* ------------------------------------------------ BDPTRenderer::allocatePathBufs
AdvancePtrStuck(ptr, n) == ptr
\* ptr += n
AdvancePtr(ptr, n) == ptr + n

\* the loop that hands each core its camera buffer and then its light buffer
RECURSIVE allocLoop(_, _, _, _, _, _, _)
allocLoop(i, cores, ptr, cpn, lpn, cp, lp) ==
    IF i >= cores THEN [cp |-> cp, lp |-> lp]
    ELSE LET lptr == AdvancePtr(ptr, cpn)
         IN allocLoop(i + 1, cores, AdvancePtr(lptr, lpn), cpn, lpn,
                      cp @@ (i :> ptr), lp @@ (i :> lptr))

allocatePathBufs(cpn, lpn, cores) ==
    LET pnPerCore == cpn + lpn
        r == allocLoop(0, cores, 0, cpn, lpn, <<>>, <<>>)
    IN [mem |-> pnPerCore * cores, cp |-> r.cp, lp |-> r.lp]

\* ------------------------------------------------ BDPTRenderer::sceneIntersect
RTC_INVALID_GEOMETRY_ID == -1
NoHit == [hit |-> FALSE, t |-> 0, masked |-> FALSE]

\* sceneIntersect not running
\* DistanceRandom::DistanceRandom: the sampler before any light is given to it
IdleSampler ==
    /\ m_iN = 0
    /\ m_maxD = 0
    /\ m_distances = <<>>
    /\ powers = <<>>
    /\ lsPc = "idle"
    /\ rndVal = 0
    /\ sampleId = -1
    /\ samplePdf = [num |-> 0, den |-> 1]

\* no camera
IdleCamera ==
    /\ m_pImage = <<>>
    /\ camPc = "none"
    /\ hitRads = <<>>

\* no render with a light going on
IdleAttenuation ==
    /\ lightDistanceAttenuation = 1
    /\ lightMinDistance = 1
    /\ attDist = 0
    /\ attRange = 0
    /\ attLight = 0
    /\ pixRad = <<>>

\* a colour assigned by paint; the missing-material colour is a colour of its own
Color(r, g, b) == [missing |-> FALSE, r |-> r, g |-> g, b |-> b]
Black == Color(0, 0, 0)
NoSubject == [name |-> "nullptr", m_vHashedColors |-> <<>>]

\* FCHandler::FCHandler: no subject, nothing painted
IdleFC ==
    /\ m_pSubject = NoSubject
    /\ fcName = ""
    /\ fcList = <<>>
    /\ fcArg = 0
    /\ fcColor = Black

IdleAux == IdleSampler /\ IdleCamera /\ IdleAttenuation /\ IdleFC

IdleIsect ==
    /\ surfaces = <<>>
    /\ rhit = [tnear |-> 0, tfar |-> 0, geomID |-> RTC_INVALID_GEOMETRY_ID, masked |-> FALSE]
    /\ t1 = 0
    /\ itr = 0
    /\ ipc = "idle"
    /\ iresult = NoHit
    /\ queries = 0
    /\ missed = FALSE

\* ------------------------------------------------ RenderScene::RenderScene
\* the scene as the constructor leaves it, but for the device
Constructed ==
    /\ m_iMeshesN = 0
    /\ m_pMeshes = <<>>
    /\ m_iInstancesN = 0
    /\ m_pInstances = <<>>
    /\ m_iMaterialsN = 0
    /\ m_ppMaterials = <<>>
    /\ m_ppLights = <<>>
    /\ m_embreeScene = <<>>
    /\ m_bTraceReady = FALSE
    /\ spc = "ready"
    /\ lastOp = "RenderScene"
    /\ commitRan = FALSE
    /\ commitRet = "none"
    /\ hasLog = FALSE
    /\ log = <<>>

\* no call is made on the scene
IdleScene == m_embreeDevice = TRUE /\ Constructed

\* ------------------------------------------------------------ render(): main thread
EmptyBuf == [i \in 0 .. (MaxBounces + 1) |-> NoPart]

\* computePaths not running
IdlePath ==
    /\ ppc = "idle"
    /\ lpBuf = EmptyBuf /\ cpBuf = EmptyBuf
    /\ lpsource = FALSE
    /\ lp_len = 0 /\ cp_len = 0 /\ cp_exit = FALSE
    /\ radiance = 0 /\ totalPN = 0
    /\ ci = 0 /\ cj = 0
    /\ result = [num |-> 0, den |-> 1]
    /\ contrib = 0
    /\ connected = {}
    /\ considered = {}

ParamSet == [numberOfCores : 0 .. MaxCores,
             cameraBouncesN : {0, MaxBounces},
             lightBouncesN : {0, MaxBounces},
             maxPathLength : {MaxPathLen},
             samplesPerPixel : 1 .. MaxSamples]

NoThread == [pc |-> "unborn", tid |-> 0, row |-> 0, j |-> 0, k |-> 0]

InitRender ==
    /\ m_pParams \in ParamSet
    /\ \E w \in 1 .. MaxWidth, h \in 1 .. MaxHeight :
          sensor = [width |-> w, height |-> h, m_pImage |-> [id \in 0 .. (w * h - 1) |-> 0]]
    /\ m_iLightsN \in 0 .. 1
    /\ m_pBackground = FALSE
    /\ IdlePath
    /\ IdleIsect
    /\ IdleAux
    /\ IdleScene
    /\ m_iCoresN = 0
    /\ m_aiCurRow = 0
    /\ m_pPathMem = 0
    /\ m_ppCPBuf = <<>>
    /\ m_ppLPBuf = <<>>
    /\ mainPc = "idle"
    /\ spawned = 0
    /\ joined = 0
    /\ thr = [t \in Tids |-> NoThread]
    /\ rowClaims = [r \in 0 .. (sensor.height - 1) |-> <<>>]
    /\ writes = {}
    /\ renders = 0

SensorInitKeepsImage(s) == s
\* sensor->init(): the image is cleared
SensorInit(s) == [s EXCEPT !.m_pImage = [id \in DOMAIN s.m_pImage |-> 0]]

\* render(): clamp the core count, allocate the path buffers, reset the row
\* counter, sensor->init(), a new vector of threads
RenderCall ==
    /\ LET cores == clamp(m_pParams.numberOfCores, 1, sensor.height)
           bufs  == allocatePathBufs(m_pParams.cameraBouncesN + 1, m_pParams.lightBouncesN + 1, cores)
       IN /\ m_iCoresN' = cores
          /\ m_pPathMem' = bufs.mem
          /\ m_ppCPBuf' = bufs.cp
          /\ m_ppLPBuf' = bufs.lp
    /\ m_aiCurRow' = 0
    /\ sensor' = SensorInit(sensor)
    /\ mainPc' = "spawn"
    /\ spawned' = 0
    /\ joined' = 0
    /\ thr' = [t \in Tids |-> NoThread]
    /\ rowClaims' = [r \in DOMAIN rowClaims |-> <<>>]
    /\ writes' = {}
    /\ renders' = renders + 1
    /\ UNCHANGED <<auxVars, cfgVars, sceneVars, isectVars, pathVars>>

\* the first render() call of the renderer
RenderStart ==
    /\ mainPc = "idle"
    /\ RenderCall

\* a further render() call on the same sensor, after the one before returned
RenderAgain ==
    /\ mainPc = "done"
    /\ renders < MaxRenders
    /\ RenderCall

\* std::generate_n(... new std::thread(&BDPTRenderer::renderRow, this, sensor, tid++))
SpawnThread ==
    /\ mainPc = "spawn"
    /\ spawned < m_iCoresN
    /\ thr' = [thr EXCEPT ![spawned] = [pc |-> "claim", tid |-> spawned, row |-> 0, j |-> 0, k |-> 0]]
    /\ spawned' = spawned + 1
    /\ mainPc' = IF spawned + 1 = m_iCoresN THEN "join" ELSE "spawn"
    /\ UNCHANGED <<auxVars, cfgVars, sceneVars, isectVars, pathVars, m_iCoresN, m_aiCurRow, m_pPathMem, m_ppCPBuf, m_ppLPBuf,
                   joined, sensor, rowClaims, writes, renders>>

ThreadNeverFinished(t) == FALSE
ThreadStarted(t) == thr[t].pc # "unborn"
\* std::thread::join returns once renderRow has returned in the thread
ThreadFinished(t) == thr[t].pc = "exited"

\* std::for_each(threads.begin(), threads.end(), std::mem_fn(&std::thread::join))
JoinThread ==
    /\ mainPc = "join"
    /\ joined < m_iCoresN
    /\ ThreadFinished(joined)
    /\ joined' = joined + 1
    /\ UNCHANGED <<auxVars, cfgVars, sceneVars, isectVars, pathVars, m_iCoresN, m_aiCurRow, m_pPathMem, m_ppCPBuf, m_ppLPBuf,
                   mainPc, spawned, thr, sensor, rowClaims, writes, renders>>

AllJoinedButLast == joined >= m_iCoresN - 1
\* std::for_each has gone through the whole vector of threads
AllJoined == joined = m_iCoresN

\* sensor->stop(); freePathBuffers()
RenderFinish ==
    /\ mainPc = "join"
    /\ AllJoined
    /\ mainPc' = "done"
    /\ m_pPathMem' = 0
    /\ m_ppCPBuf' = <<>>
    /\ m_ppLPBuf' = <<>>
    /\ UNCHANGED <<auxVars, cfgVars, sceneVars, isectVars, pathVars, m_iCoresN, m_aiCurRow, spawned, joined, thr, sensor,
                   rowClaims, writes, renders>>

\* ------------------------------------------------------------ renderRow(): threads
FetchAddNoIncrement(cur) == cur
\* the value m_aiCurRow.fetch_add(1) leaves in the counter
FetchAdd(cur) == cur + 1

\* while ((row = m_aiCurRow.fetch_add(1)) < height)
ClaimRow(t) ==
    /\ thr[t].pc = "claim"
    /\ LET row == m_aiCurRow IN
         /\ m_aiCurRow' = FetchAdd(m_aiCurRow)
         /\ IF row < sensor.height
            THEN /\ thr' = [thr EXCEPT ![t].pc = "sample", ![t].row = row, ![t].j = 0, ![t].k = 0]
                 /\ rowClaims' = [rowClaims EXCEPT ![row] = Append(@, thr[t].tid)]
            ELSE /\ thr' = [thr EXCEPT ![t].pc = "exited"]
                 /\ UNCHANGED rowClaims
    /\ writes' = writes \cup {<<<<"m_aiCurRow", 0>>, thr[t].tid>>}
    /\ UNCHANGED <<auxVars, cfgVars, sceneVars, isectVars, pathVars, m_iCoresN, m_pPathMem, m_ppCPBuf, m_ppLPBuf, mainPc, spawned,
                   joined, sensor, renders>>

\* k hits followed by a miss
HitsThenMiss(k) == [i \in 1 .. (MaxBounces + 1) |-> IF i <= k THEN Bounce(TRUE, 1, 0, 1) ELSE Miss]

\* one iteration of the sample loop of renderRow: sensor->getRay, computePaths, sensor->hit
RenderSample(t) ==
    /\ thr[t].pc = "sample"
    /\ LET tid == thr[t].tid
           id  == thr[t].row * sensor.width + thr[t].j          \* PinholeCamera::getRay
       IN \E h \in {0, MaxBounces} :       \* both rays leave the scene at once, or never
          LET ch == h
              lh == h
              lp == computePath(m_pParams.lightBouncesN + 1, 2, FALSE, HitsThenMiss(lh))
              cp == computePath(m_pParams.cameraBouncesN + 1, 0, TRUE, HitsThenMiss(ch))
              lpTouch == IF m_iLightsN > 0
                         THEN {<<<<"m_pPathMem", m_ppLPBuf[tid] + i>>, tid>> : i \in Touched(lp.P)}
                         ELSE {}
              cpTouch == {<<<<"m_pPathMem", m_ppCPBuf[tid] + i>>, tid>> : i \in Touched(cp.P)}
          IN /\ writes' = writes \cup lpTouch \cup cpTouch
                              \cup {<<<<"m_sampler", 0>>, tid>>}            \* sampler.rand() in getRay / sampleLight
                              \cup (IF id \in DOMAIN sensor.m_pImage         \* PinholeCamera::hit rangeCheck
                                    THEN {<<<<"m_pImage", id>>, tid>>} ELSE {})
             /\ sensor' = IF id \in DOMAIN sensor.m_pImage
                          THEN [sensor EXCEPT !.m_pImage[id] = @ + 1]
                          ELSE sensor
    /\ thr' = IF thr[t].k + 1 < m_pParams.samplesPerPixel
              THEN [thr EXCEPT ![t].k = @ + 1]
              ELSE IF thr[t].j + 1 < sensor.width
              THEN [thr EXCEPT ![t].k = 0, ![t].j = @ + 1]
              ELSE [thr EXCEPT ![t].pc = "claim"]
    /\ UNCHANGED <<auxVars, cfgVars, sceneVars, isectVars, pathVars, m_iCoresN, m_aiCurRow, m_pPathMem, m_ppCPBuf, m_ppLPBuf, mainPc,
                   spawned, joined, rowClaims, renders>>

NextRender ==
    \/ RenderStart
    \/ SpawnThread
    \/ JoinThread
    \/ RenderFinish
    \/ \E t \in Tids : ClaimRow(t)
    \/ \E t \in Tids : RenderSample(t)

SpecRender == InitRender /\ [][NextRender]_vars

\* The thread that runs render() is scheduled while it can take a step, and
\* so is one of the render threads while any of them can; a sample (getRay,
\* computePaths, hit) returns.
MainStep == SpawnThread \/ JoinThread \/ RenderFinish
ThreadStep == \E t \in Tids : ClaimRow(t) \/ RenderSample(t)
FairRender == WF_vars(MainStep) /\ WF_vars(ThreadStep)

\* Scheduling does not depend on what a sample computes: the paths are the
\* shortest ones.
InitRenderFair ==
    /\ InitRender
    /\ m_pParams.cameraBouncesN = 0
    /\ m_pParams.lightBouncesN = 0

SpecRenderFair == InitRenderFair /\ [][NextRender]_vars /\ FairRender

\* render() called once per view point on the same sensor
NextRenderAgain == NextRender \/ RenderAgain

SpecRenderAgain == InitRenderFair /\ [][NextRenderAgain]_vars

\* ============================================================ computePaths
\* render() not running
IdleRender ==
    /\ sensor = [width |-> 1, height |-> 1, m_pImage |-> [id \in 0 .. 0 |-> 0]]
    /\ m_iCoresN = 0
    /\ m_aiCurRow = 0
    /\ m_pPathMem = 0
    /\ m_ppCPBuf = <<>>
    /\ m_ppLPBuf = <<>>
    /\ mainPc = "idle"
    /\ spawned = 0
    /\ joined = 0
    /\ thr = [t \in Tids |-> NoThread]
    /\ rowClaims = [r \in 0 .. 0 |-> <<>>]
    /\ writes = {}
    /\ renders = 0

\* what the scene can answer to the queries of one bounce
Levels == {0, 1}
CamBounce   == {Miss} \cup {Bounce(TRUE, b, e, 0) : b \in Levels, e \in Levels}
LightBounce == {Miss} \cup {Bounce(TRUE, b, 0, a) : b \in Levels, a \in Levels}
\* bounce outcomes along one ray path: nothing is hit after the ray left the scene
Outcomes(S) == {s \in [1 .. (MaxBounces + 1) -> S] :
                   \A i \in 1 .. MaxBounces : ~s[i].hit => ~s[i+1].hit}

InitPath ==
    /\ m_pParams \in [numberOfCores : {1},
                      cameraBouncesN : 0 .. MaxBounces,
                      lightBouncesN : 0 .. MaxBounces,
                      maxPathLength : 0 .. MaxPathLen,
                      samplesPerPixel : {1}]
    /\ m_iLightsN \in 0 .. 1
    /\ m_pBackground \in BOOLEAN
    /\ IdleRender
    /\ IdleIsect
    /\ IdleAux
    /\ IdleScene
    /\ ppc = "light"
    /\ lpBuf = EmptyBuf /\ cpBuf = EmptyBuf
    /\ lpsource = FALSE
    /\ lp_len = 0 /\ cp_len = 0 /\ cp_exit = FALSE
    /\ radiance = 0 /\ totalPN = 0
    /\ ci = 0 /\ cj = 0
    /\ result = [num |-> 0, den |-> 1]
    /\ contrib = 0
    /\ connected = {}
    /\ considered = {}

\* if (m_pScene->lightsCount()>0) lpsource=tryComputeLightPath(lp_len,tid);
TryComputeLightPath ==
    /\ ppc = "light"
    /\ IF m_iLightsN > 0
       THEN \E out \in Outcomes(LightBounce), rad \in Levels :
               LET lp == computePath(m_pParams.lightBouncesN + 1, rad, FALSE, out)
               IN /\ lpBuf' = lp.P
                  /\ lp_len' = lp.n
                  /\ lpsource' = TRUE
       ELSE UNCHANGED <<lpBuf, lp_len, lpsource>>
    /\ ppc' = "camera"
    /\ UNCHANGED <<auxVars, cfgVars, sceneVars, isectVars, renderVars, cpBuf, cp_len, cp_exit, radiance, totalPN, ci, cj,
                   result, contrib, connected, considered>>

\* cp_exit=computePath(m_ppCPBuf[tid],cameraBouncesN+1,O,R,radiance,cp_len,true);
ComputeCameraPath ==
    /\ ppc = "camera"
    /\ \E out \in Outcomes(CamBounce) :
          LET cp == computePath(m_pParams.cameraBouncesN + 1, 0, TRUE, out)
          IN /\ cpBuf' = cp.P
             /\ cp_len' = cp.n
             /\ cp_exit' = cp.sceneExit
             /\ radiance' = cp.Rad
    /\ ppc' = "background"
    /\ UNCHANGED <<auxVars, cfgVars, sceneVars, isectVars, renderVars, lpBuf, lp_len, lpsource, totalPN, ci, cj,
                   result, contrib, connected, considered>>

\* the background term, else the emissive term, and totalPN
BackgroundOrEmissive ==
    /\ ppc = "background"
    /\ IF cp_exit /\ m_pBackground /\ cp_len <= m_pParams.maxPathLength
       THEN \E bgRad \in Levels :
               /\ radiance' = radiance + bgRad * cpBuf[cp_len - 1].m_outFactor
               /\ totalPN' = totalPN + 1
               /\ contrib' = 1
       ELSE /\ totalPN' = IF radiance > 0 THEN totalPN + 1 ELSE totalPN
            /\ contrib' = IF radiance > 0 THEN 1 ELSE 0
            /\ UNCHANGED radiance
    /\ ppc' = IF lpsource THEN "connect" ELSE "scale"
    /\ ci' = 0
    /\ cj' = 1
    /\ UNCHANGED <<auxVars, cfgVars, sceneVars, isectVars, renderVars, lpBuf, cpBuf, lpsource, lp_len, cp_len, cp_exit,
                   result, connected, considered>>

InnerLoopContinuesNoLengthTest(i, j) == j < cp_len
\* j<cp_len && i+j<=m_pParams->maxPathLength
InnerLoopContinues(i, j) == j < cp_len /\ i + j <= m_pParams.maxPathLength

\* the radiance light vertex ci sends towards camera vertex cj: direct is what
\* getRadianceAlongRay and computeLightAttenuation give for the light itself
ConnLRad(direct) == IF ci = 0 THEN direct ELSE lpBuf[ci].m_outRad
\* lcRad before the brdf is known: the most the connection can carry
ConnBound(direct, c) == ConnLRad(direct) * c * cpBuf[cj - 1].m_outFactor
\* lcRad of the connection
ConnRad(direct, c, brdf) == (brdf * c) * cpBuf[cj - 1].m_outFactor * ConnLRad(direct)

ConnectionAcceptedUnseen(direct, c, brdf, visible) ==
    ~(ConnBound(direct, c) < RayCutPixValue \/ ConnRad(direct, c, brdf) < RayCutPixValue)
\* none of the three continue statements of the inner loop is taken; visible
\* is what isConnected(lPos, cPos) returns
ConnectionAccepted(direct, c, brdf, visible) ==
    ~(ConnBound(direct, c) < RayCutPixValue \/ ConnRad(direct, c, brdf) < RayCutPixValue
      \/ ~visible)

\* the body of the inner connection loop for light vertex ci and camera vertex cj
ConnectCall(direct, c, brdf, visible) ==
    /\ ppc = "connect"
    /\ ci < lp_len
    /\ InnerLoopContinues(ci, cj)
    /\ IF ConnectionAccepted(direct, c, brdf, visible)
       THEN /\ radiance' = radiance + ConnRad(direct, c, brdf)
            /\ contrib' = contrib + 1
            /\ connected' = connected \cup {<<ci, cj>>}
       ELSE UNCHANGED <<radiance, contrib, connected>>
    /\ considered' = considered \cup {<<ci, cj>>}
    /\ cj' = cj + 1
    /\ UNCHANGED <<auxVars, cfgVars, sceneVars, isectVars, renderVars, ppc, lpBuf, cpBuf, lpsource, lp_len, cp_len, cp_exit,
                   totalPN, ci, result>>

\* one iteration of the inner connection loop
ConnectInner ==
    \E direct \in Levels, c \in Levels, brdf \in Levels, visible \in BOOLEAN :
          ConnectCall(direct, c, brdf, visible)

\* the inner loop ended: next light vertex
ConnectOuter ==
    /\ ppc = "connect"
    /\ ci < lp_len
    /\ ~InnerLoopContinues(ci, cj)
    /\ ci' = ci + 1
    /\ cj' = 1
    /\ UNCHANGED <<auxVars, cfgVars, sceneVars, isectVars, renderVars, ppc, lpBuf, cpBuf, lpsource, lp_len, cp_len, cp_exit,
                   radiance, totalPN, result, contrib, connected, considered>>

\* the outer loop ended
ConnectDone ==
    /\ ppc = "connect"
    /\ ci >= lp_len
    /\ ppc' = "scale"
    /\ UNCHANGED <<auxVars, cfgVars, sceneVars, isectVars, renderVars, lpBuf, cpBuf, lpsource, lp_len, cp_len, cp_exit,
                   radiance, totalPN, ci, cj, result, contrib, connected, considered>>

\* float scale=totalPN?1.0f/static_cast<float>(totalPN):1.0f; radiance[i]*=scale;
ScaleRadiance ==
    /\ ppc = "scale"
    /\ result' = [num |-> radiance, den |-> IF totalPN # 0 THEN totalPN ELSE 1]
    /\ ppc' = "done"
    /\ UNCHANGED <<auxVars, cfgVars, sceneVars, isectVars, renderVars, lpBuf, cpBuf, lpsource, lp_len, cp_len, cp_exit,
                   radiance, totalPN, ci, cj, contrib, connected, considered>>

NextPath ==
    \/ TryComputeLightPath
    \/ ComputeCameraPath
    \/ BackgroundOrEmissive
    \/ ConnectInner
    \/ ConnectOuter
    \/ ConnectDone
    \/ ScaleRadiance

SpecPath == InitPath /\ [][NextPath]_vars

\* computePaths in a scene with a light, a light path of at most one bounce
\* and a camera path that can bounce
InitConnect ==
    /\ InitPath
    /\ m_iLightsN > 0
    /\ m_pParams.lightBouncesN <= 1
    /\ m_pParams.cameraBouncesN >= 1
    /\ m_pParams.maxPathLength >= 1

SpecConnect == InitConnect /\ [][NextPath]_vars

\* ============================================================ sceneIntersect
maxItr == 10

\* Ray parameters are counted in steps of the margin the traversal adds behind
\* a masked hit, so surfaces closer together than that margin share one t:
\*   "masked"     an alpha-masked surface
\*   "opaque"     a surface that is not masked
\*   "coincident" a masked and a non-masked surface within the margin of each other
\* A ray meets a run of masked surfaces, then nothing, a non-masked surface,
\* a coincident pair, or a coincident pair with a non-masked surface behind it.
RECURSIVE MaskedRun(_)
MaskedRun(k) == IF k = 0 THEN <<>> ELSE Append(MaskedRun(k - 1), "masked")
RaySurfaces ==
    UNION {{MaskedRun(k) \o tail : tail \in {<<>>, <<"opaque">>, <<"coincident">>,
                                             <<"coincident", "opaque">>}} :
           k \in 0 .. MaxSurfaces}

\* delta = m_fEpsAcc*fEpsilon*max(|hit point|, 1, tfar), in margin steps
EpsMargin(t) == 1

\* rtcIntersect1: the closest surface with tnear <= t <= tfar; the hit is left
\* untouched when there is none; of two surfaces nearer to each other than the
\* margin either may be the closest
rtcIntersect1(rh) ==
    LET inRange == {t \in DOMAIN surfaces : rh.tnear <= t /\ t <= rh.tfar}
    IN IF inRange = {} THEN {rh}
       ELSE LET t == CHOOSE x \in inRange : \A y \in inRange : x <= y
            IN {[rh EXCEPT !.tfar = t, !.geomID = t, !.masked = m] :
                   m \in CASE surfaces[t] = "masked" -> {TRUE}
                           [] surfaces[t] = "opaque" -> {FALSE}
                           [] OTHER -> BOOLEAN}

DecrementForgotten(n) == n
\* --itr
Decrement(n) == n - 1

RestoreTfarForgotten(saved, cur) == cur
\* rhit.ray.tfar=t1
RestoreTfar(saved, cur) == saved

InitIsect ==
    /\ m_pParams \in [numberOfCores : {1}, cameraBouncesN : {0}, lightBouncesN : {0},
                      maxPathLength : {0}, samplesPerPixel : {1}]
    /\ m_iLightsN = 0
    /\ m_pBackground = FALSE
    /\ IdleRender
    /\ IdlePath
    /\ IdleAux
    /\ IdleScene
    /\ surfaces \in RaySurfaces
    \* the ray ends just before the last surface, or runs on to FLT_MAX
    /\ t1 \in {max(Len(surfaces) - 1, 0), MaxSurfaces + 3}
    /\ rhit = [tnear |-> 0, tfar |-> t1, geomID |-> RTC_INVALID_GEOMETRY_ID, masked |-> FALSE]
    /\ itr = maxItr
    /\ ipc = "query"
    /\ iresult = NoHit
    /\ queries = 0
    /\ missed = FALSE

\* one iteration of the while loop of sceneIntersect
IntersectQuery ==
    /\ ipc = "query"
    /\ itr > 0
    /\ \E h \in rtcIntersect1(rhit) :
          IF h.geomID = RTC_INVALID_GEOMETRY_ID
          THEN /\ ipc' = "returned" /\ iresult' = NoHit /\ rhit' = h /\ UNCHANGED itr
          ELSE IF ~h.masked                                  \* !mat->isMasked(&sp)
          THEN /\ ipc' = "returned"
               /\ iresult' = [hit |-> TRUE, t |-> h.tfar, masked |-> h.masked]
               /\ rhit' = h /\ UNCHANGED itr
          ELSE LET tn == h.tfar + EpsMargin(h.tfar)
                   tf == RestoreTfar(t1, h.tfar)
               IN /\ rhit' = [h EXCEPT !.tnear = tn, !.tfar = tf]
                  /\ IF tf <= tn
                     THEN /\ ipc' = "returned" /\ iresult' = NoHit /\ UNCHANGED itr
                     ELSE /\ itr' = Decrement(itr) /\ UNCHANGED <<ipc, iresult>>
    /\ queries' = queries + 1
    /\ missed' = ~\E t \in DOMAIN surfaces : rhit.tnear <= t /\ t <= rhit.tfar
    /\ UNCHANGED <<auxVars, cfgVars, sceneVars, renderVars, pathVars, surfaces, t1>>

\* the iteration cap is used up
IntersectGiveUp ==
    /\ ipc = "query"
    /\ itr <= 0
    /\ ipc' = "returned"
    /\ iresult' = NoHit
    /\ UNCHANGED <<auxVars, cfgVars, sceneVars, renderVars, pathVars, surfaces, t1, rhit, itr, queries, missed>>

NextIsect == IntersectQuery \/ IntersectGiveUp

SpecIsect == InitIsect /\ [][NextIsect]_vars

\* --------------------------------- computePath around its last sceneIntersect call
\* The sceneIntersect call above is the one of the last iteration the loop of
\* a computePath call can make (i = max_n - 1); the iterations before it found
\* a surface each and did not cut the path.
InitPathExit ==
    /\ m_pParams \in [numberOfCores : {1}, cameraBouncesN : 0 .. MaxBounces, lightBouncesN : 0 .. MaxBounces,
                      maxPathLength : {0}, samplesPerPixel : {1}]
    /\ m_iLightsN = 0
    /\ m_pBackground = FALSE
    /\ IdleRender
    /\ IdlePath
    /\ IdleAux
    /\ IdleScene
    /\ surfaces \in RaySurfaces
    /\ t1 \in {max(Len(surfaces) - 1, 0), MaxSurfaces + 3}
    /\ rhit = [tnear |-> 0, tfar |-> t1, geomID |-> RTC_INVALID_GEOMETRY_ID, masked |-> FALSE]
    /\ itr = maxItr
    /\ ipc = "query"
    /\ iresult = NoHit
    /\ queries = 0
    /\ missed = FALSE

SurfaceFoundAlways(res) == TRUE
\* if (!sceneIntersect(esc,rhit,P[i].m_surfPoint)) { sceneExit=true; break; }
SurfaceFound(res) == res.hit

\* computePath returns: a camera path (inv) or a light path of radiance Rad
\* whose last bounce has brdf*|cos| = bc. With max_n = 1 the loop is not
\* entered and sceneIntersect is not called.
computePathReturns ==
    /\ ppc = "idle"
    /\ \E inv \in BOOLEAN, Rad \in 1 .. MaxRadiance, bc \in Levels :
          LET max_n == IF inv THEN m_pParams.cameraBouncesN + 1 ELSE m_pParams.lightBouncesN + 1
              out == [i \in 1 .. (MaxBounces + 1) |->
                         IF i < max_n - 1 THEN Bounce(TRUE, 1, 0, 1)
                         ELSE IF i = max_n - 1 /\ SurfaceFound(iresult) THEN Bounce(TRUE, bc, 0, 1)
                         ELSE Miss]
              r == computePath(max_n, IF inv THEN 0 ELSE Rad, inv, out)
          IN /\ IF max_n = 1 THEN ipc = "query" /\ queries = 0 ELSE ipc = "returned"
             /\ ipc' = IF max_n = 1 THEN "idle" ELSE ipc
             /\ cp_exit' = r.sceneExit
             /\ lpsource' = ~inv
             /\ IF inv THEN cpBuf' = r.P /\ cp_len' = r.n /\ UNCHANGED <<lpBuf, lp_len>>
                       ELSE lpBuf' = r.P /\ lp_len' = r.n /\ UNCHANGED <<cpBuf, cp_len>>
    /\ ppc' = "traced"
    /\ UNCHANGED <<auxVars, cfgVars, sceneVars, renderVars, surfaces, rhit, t1, itr, iresult, queries, missed,
                   radiance, totalPN, ci, cj, result, contrib, connected, considered>>

NextPathExit == IntersectQuery \/ IntersectGiveUp \/ computePathReturns

SpecPathExit == InitPathExit /\ [][NextPathExit]_vars

\* ============================================================ RenderScene
\* A caller allocates the scene, fills it with the setters and commits it.
\* Textures take no part in what is checked here and are left out. A device
\* that exists is taken to create scenes successfully.

\* RenderMesh::reset
ResetMesh == [m_iVN |-> 0, m_iFN |-> 0, m_pF |-> FALSE, m_pfV |-> FALSE,
              m_bVertexDef |-> FALSE, m_iMatId |-> -1, m_embreeScene |-> FALSE]

\* RenderMesh::allocate, setFaces and, when vert is given, setVertices
MeshAllocate(vertN, facesN, vert, matIndex) ==
    [m_iVN |-> vertN, m_iFN |-> facesN, m_pF |-> TRUE, m_pfV |-> TRUE,
     m_bVertexDef |-> vert, m_iMatId |-> matIndex, m_embreeScene |-> FALSE]

isValid(m) == m.m_iVN > 0 /\ m.m_iFN > 0 /\ m.m_pfV /\ m.m_pF /\ m.m_bVertexDef

\* RenderMesh::commitMesh: the mesh afterwards
commitMesh(m) == IF ~isValid(m) THEN ResetMesh ELSE m

\* vertN, facesN and whether vert is given, as setMesh receives them
Geometries == {[vertN |-> 1, facesN |-> 1, vert |-> TRUE],
               [vertN |-> 1, facesN |-> 1, vert |-> FALSE]}

\* material indices given to setMesh: below the array, the first slot, the
\* missing-material slot and the entry behind it
MatIdInputs == {-1, 0, m_iMaterialsN - 1, m_iMaterialsN}

InitScene ==
    /\ m_pParams \in [numberOfCores : {1}, cameraBouncesN : {0}, lightBouncesN : {0},
                      maxPathLength : {0}, samplesPerPixel : {1}]
    /\ m_iLightsN = 0
    /\ m_pBackground = FALSE
    /\ IdleRender
    /\ IdlePath
    /\ IdleIsect
    /\ IdleAux
    /\ m_embreeDevice \in BOOLEAN
    /\ Constructed

NoCommit ==
    /\ commitRan' = FALSE
    /\ commitRet' = "none"
    /\ hasLog' = FALSE
    /\ log' = <<>>

otherVars == <<m_pParams, m_pBackground, renderVars, pathVars, isectVars, auxVars>>

\* RenderScene::free
Free ==
    /\ spc = "ready"
    /\ lastOp # "RenderScene"
    /\ m_iMeshesN' = 0
    /\ m_pMeshes' = <<>>
    /\ m_embreeScene' = <<>>
    /\ m_iInstancesN' = 0
    /\ m_pInstances' = <<>>
    /\ m_ppMaterials' = <<>>
    /\ m_iMaterialsN' = 0
    /\ m_ppLights' = <<>>
    /\ m_iLightsN' = 0
    /\ m_bTraceReady' = FALSE
    /\ lastOp' = "RenderScene"
    /\ NoCommit
    /\ UNCHANGED <<otherVars, m_embreeDevice, spc>>

\* RenderScene::allocate on a scene that holds nothing. The instances are
\* default-initialised, so each m_iMeshId starts with an indeterminate value.
Allocate ==
    /\ spc = "ready"
    /\ lastOp = "RenderScene"
    /\ \E meshN \in 0 .. MaxMeshes, instN \in 0 .. MaxInstances,
          matN \in 0 .. MaxMaterials, ligN \in 0 .. MaxLights :
          /\ m_iMeshesN' = meshN
          /\ m_pMeshes' = [i \in 0 .. (meshN - 1) |-> ResetMesh]
          /\ m_iInstancesN' = instN
          /\ m_pInstances' \in [0 .. (instN - 1) -> -1 .. meshN]
          /\ m_iMaterialsN' = matN + 1
          /\ m_ppMaterials' = [i \in 0 .. (matN + 1) |->
                                  IF i = matN THEN "missing" ELSE "null"]
          /\ m_iLightsN' = ligN
          /\ m_ppLights' = [i \in 0 .. (ligN - 1) |-> "null"]
    /\ m_embreeScene' = <<>>
    /\ m_bTraceReady' = FALSE
    /\ lastOp' = "allocate"
    /\ NoCommit
    /\ UNCHANGED <<otherVars, m_embreeDevice, spc>>

\* the setters are called on an allocated scene that is not yet committed
CanSet == spc = "ready" /\ lastOp # "RenderScene" /\ ~m_bTraceReady

\* what a setter call leaves alone besides the array it writes
SetterFrame ==
    /\ lastOp' = "set"
    /\ NoCommit
    /\ UNCHANGED <<otherVars, m_iLightsN, m_embreeDevice, m_iMeshesN, m_iInstancesN,
                   m_iMaterialsN, m_embreeScene, m_bTraceReady>>

\* RenderScene::setMesh
setMeshCall(meshId, g, matId) ==
    /\ IF meshId < 0 \/ meshId >= m_iMeshesN
       THEN UNCHANGED m_pMeshes
       ELSE m_pMeshes' = [m_pMeshes EXCEPT
                             ![meshId] = MeshAllocate(g.vertN, g.facesN, g.vert, matId)]
    /\ SetterFrame
    /\ UNCHANGED <<m_pInstances, m_ppMaterials, m_ppLights, spc>>

\* the further arguments are varied only for calls that use them
setMesh ==
    /\ CanSet
    /\ \E meshId \in -1 .. m_iMeshesN :
          \E g \in IF meshId \in 0 .. (m_iMeshesN - 1)
                    THEN Geometries ELSE {[vertN |-> 1, facesN |-> 1, vert |-> TRUE]},
             matId \in IF meshId \in 0 .. (m_iMeshesN - 1) THEN MatIdInputs ELSE {-1} :
             setMeshCall(meshId, g, matId)

\* RenderScene::setInstance
setInstanceCall(instId, meshId) ==
    /\ IF instId < 0 \/ instId >= m_iInstancesN
       THEN UNCHANGED m_pInstances
       ELSE m_pInstances' = [m_pInstances EXCEPT ![instId] = meshId]
    /\ SetterFrame
    /\ UNCHANGED <<m_pMeshes, m_ppMaterials, m_ppLights, spc>>

setInstance ==
    /\ CanSet
    /\ \E instId \in -1 .. m_iInstancesN :
          \E meshId \in IF instId \in 0 .. (m_iInstancesN - 1)
                         THEN -1 .. m_iMeshesN ELSE {-1} :
             setInstanceCall(instId, meshId)

SetMaterialRejectsPastMissing(matId) == matId < 0 \/ matId >= m_iMaterialsN
\* if (matId<0 || matId>=m_iMaterialsN-1) return;
SetMaterialRejects(matId) == matId < 0 \/ matId >= m_iMaterialsN - 1

\* RenderScene::setMaterial
setMaterialCall(matId) ==
    /\ IF SetMaterialRejects(matId)
       THEN UNCHANGED m_ppMaterials
       ELSE m_ppMaterials' = [m_ppMaterials EXCEPT ![matId] = "material"]
    /\ SetterFrame
    /\ UNCHANGED <<m_pMeshes, m_pInstances, m_ppLights, spc>>

setMaterial ==
    /\ CanSet
    /\ \E matId \in -1 .. m_iMaterialsN : setMaterialCall(matId)

\* RenderScene::setLight
setLightCall(lightId) ==
    /\ IF lightId < 0 \/ lightId >= m_iLightsN
       THEN UNCHANGED m_ppLights
       ELSE m_ppLights' = [m_ppLights EXCEPT ![lightId] = "light"]
    /\ SetterFrame
    /\ UNCHANGED <<m_pMeshes, m_pInstances, m_ppMaterials, spc>>

setLight ==
    /\ CanSet
    /\ \E lightId \in -1 .. m_iLightsN : setLightCall(lightId)

\* RenderMesh::setVertex on mesh meshId of the scene
setVertexCall(meshId, vid) ==
    /\ IF vid < 0 \/ vid >= m_pMeshes[meshId].m_iVN
       THEN UNCHANGED m_pMeshes
       ELSE m_pMeshes' = [m_pMeshes EXCEPT ![meshId].m_bVertexDef = TRUE]
    /\ SetterFrame
    /\ UNCHANGED <<m_pInstances, m_ppMaterials, m_ppLights, spc>>

setVertex ==
    /\ CanSet
    /\ \E meshId \in 0 .. (m_iMeshesN - 1) :
          \E vid \in -1 .. m_pMeshes[meshId].m_iVN : setVertexCall(meshId, vid)

\* fid lies inside the face buffer of mesh m
FaceInBuffer(m, fid) == m.m_pF /\ fid >= 0 /\ fid < m.m_iFN

\* RenderMesh::setFace on mesh meshId of the scene. The index is not tested:
\* with fid outside the face buffer the assignment writes outside it, after
\* which the call may not return ("crashed"), may return with foreign memory
\* overwritten ("corrupted"), or may happen to hit nothing that is used. The
\* values of the faces are not kept.
setFaceCall(meshId, fid) ==
    /\ IF FaceInBuffer(m_pMeshes[meshId], fid)
       THEN UNCHANGED spc
       ELSE spc' \in {"ready", "corrupted", "crashed"}
    /\ SetterFrame
    /\ UNCHANGED <<m_pMeshes, m_pInstances, m_ppMaterials, m_ppLights>>

setFace ==
    /\ CanSet
    /\ \E meshId \in 0 .. (m_iMeshesN - 1) :
          \E fid \in -1 .. m_pMeshes[meshId].m_iFN : setFaceCall(meshId, fid)

\* ------------------------------------------------ RenderScene::commitScene
MissingMatIdPastEnd == m_iMaterialsN
\* m_pMeshes[i].m_iMatId=m_iMaterialsN-1
MissingMatId == m_iMaterialsN - 1

MatIdInRange(id) == id >= 0 /\ id < m_iMaterialsN

\* the material index the mesh loop leaves in mesh m
ResolveMatId(m) ==
    IF MatIdInRange(m.m_iMatId) /\ m_ppMaterials[m.m_iMatId] # "null"
    THEN m.m_iMatId
    ELSE MissingMatId

\* mesh i after its iteration of the mesh loop
MeshAfterCommit(i) ==
    commitMesh([m_pMeshes[i] EXCEPT !.m_iMatId = ResolveMatId(m_pMeshes[i])])

\* what the iteration for mesh i appends to the log
MeshLog(i) ==
    (IF MatIdInRange(m_pMeshes[i].m_iMatId) /\ m_ppMaterials[m_pMeshes[i].m_iMatId] = "null"
     THEN << <<"mesh refers to undefined material", i>> >> ELSE <<>>)
    \o (IF ~isValid(m_pMeshes[i]) THEN << <<"mesh is inconsistent", i>> >> ELSE <<>>)

RECURSIVE MeshesLog(_)
MeshesLog(n) == IF n = 0 THEN <<>> ELSE MeshesLog(n - 1) \o MeshLog(n - 1)

InstanceIsFalseNoValidity(meshId, meshes) ==
    meshId < 0 \/ meshId >= m_iMeshesN
\* the test of the instance loop
InstanceIsFalse(meshId, meshes) ==
    meshId < 0 \/ meshId >= m_iMeshesN \/ ~isValid(meshes[meshId])

\* the loops over m_ppMaterials and m_ppLights write through every slot
NullSlotWritten ==
    \/ \E i \in 0 .. (m_iMaterialsN - 1) : m_ppMaterials[i] = "null"
    \/ \E i \in 0 .. (m_iLightsN - 1) : m_ppLights[i] = "null"

AlreadyCommittedIgnored == FALSE
\* if (m_bTraceReady) return true;
AlreadyCommitted == m_bTraceReady

commitScene ==
    /\ spc = "ready"
    /\ lastOp' = "commitScene"
    /\ \E lg \in BOOLEAN :
       /\ hasLog' = lg
       /\ IF AlreadyCommitted
          THEN /\ commitRan' = FALSE
               /\ commitRet' = "true"
               /\ log' = <<>>
               /\ UNCHANGED <<m_pMeshes, m_pInstances, m_embreeScene, m_bTraceReady, spc>>
          ELSE
            LET meshes == [i \in 0 .. (m_iMeshesN - 1) |-> MeshAfterCommit(i)]
                insts == [i \in 0 .. (m_iInstancesN - 1) |->
                             IF InstanceIsFalse(m_pInstances[i], meshes)
                             THEN -1 ELSE m_pInstances[i]]
                falseInst == Cardinality({i \in 0 .. (m_iInstancesN - 1) :
                                             InstanceIsFalse(m_pInstances[i], meshes)})
                log1 == MeshesLog(m_iMeshesN)
                        \o (IF falseInst # 0
                            THEN << <<"instances are invalid", falseInst>> >> ELSE <<>>)
                Logged(l) == IF lg THEN l ELSE <<>>
            IN /\ commitRan' = TRUE
               /\ m_pInstances' = insts
               /\ IF falseInst = m_iInstancesN
                  THEN /\ commitRet' = "false"               \* Nothing to render
                       /\ log' = Logged(log1)
                       /\ m_pMeshes' = meshes
                       /\ UNCHANGED <<m_embreeScene, m_bTraceReady, spc>>
                  ELSE \E outcome \in IF NullSlotWritten THEN {"crash", "continue"}
                                                         ELSE {"continue"} :
                       IF outcome = "crash"
                       THEN /\ spc' = "crashed"
                            /\ commitRet' = "none"
                            /\ log' = Logged(log1)
                            /\ m_pMeshes' = meshes
                            /\ UNCHANGED <<m_embreeScene, m_bTraceReady>>
                       ELSE IF ~m_embreeDevice                  \* buildEmbreeScene
                       THEN /\ commitRet' = "false"
                            /\ log' = Logged(Append(log1, <<"Embree devide is not initialized">>))
                            /\ m_pMeshes' = meshes
                            /\ UNCHANGED <<m_embreeScene, m_bTraceReady, spc>>
                       ELSE /\ m_pMeshes' = [i \in 0 .. (m_iMeshesN - 1) |->
                                                [meshes[i] EXCEPT !.m_embreeScene = isValid(meshes[i])]]
                            /\ m_embreeScene' = [i \in {k \in 0 .. (m_iInstancesN - 1) : insts[k] >= 0}
                                                    |-> insts[i]]
                            /\ m_bTraceReady' = TRUE
                            /\ commitRet' = "true"
                            /\ log' = Logged(log1)
                            /\ UNCHANGED spc
    /\ UNCHANGED <<otherVars, m_iLightsN, m_embreeDevice, m_iMeshesN, m_iInstancesN,
                   m_iMaterialsN, m_ppMaterials, m_ppLights>>

NextScene == Allocate \/ Free \/ setMesh \/ setInstance \/ setMaterial \/ setLight \/ commitScene

SpecScene == InitScene /\ [][NextScene]_vars

\* ------------------------------------------------ the setters on their own
\* a scene with its device is allocated and filled through the scene's and
\* the meshes' setters
InitSetters == InitScene /\ m_embreeDevice

NextSetters ==
    \/ Allocate \/ setMesh \/ setInstance \/ setMaterial \/ setLight
    \/ setVertex \/ setFace

SpecSetters == InitSetters /\ [][NextSetters]_vars

\* ------------------------------------------------ setters after the commit
\* The setters do not look at m_bTraceReady. Here the caller makes one more
\* setter call on a scene whose commit has just succeeded.
Committed == spc = "ready" /\ m_bTraceReady /\ lastOp = "commitScene"

setMeshCommitted ==
    /\ Committed
    /\ \E meshId \in 0 .. (m_iMeshesN - 1), g \in Geometries, matId \in MatIdInputs :
          setMeshCall(meshId, g, matId)

setInstanceCommitted ==
    /\ Committed
    /\ \E instId \in 0 .. (m_iInstancesN - 1), meshId \in -1 .. m_iMeshesN :
          setInstanceCall(instId, meshId)

setMaterialCommitted ==
    /\ Committed
    /\ \E matId \in -1 .. m_iMaterialsN : setMaterialCall(matId)

setLightCommitted ==
    /\ Committed
    /\ \E lightId \in -1 .. m_iLightsN : setLightCall(lightId)

NextCommitted ==
    \/ Allocate \/ setMesh \/ setInstance \/ setMaterial \/ setLight \/ commitScene
    \/ setMeshCommitted \/ setInstanceCommitted \/ setMaterialCommitted \/ setLightCommitted

SpecCommitted == InitSetters /\ [][NextCommitted]_vars

\* ------------------------------------------------ DistanceRandom, sampleLight
\* Distances are naturals. A random value is rndVal / RndDen; a distance d
\* handed to getValue is kept as the numerator of d / RndDen, so that
\* rndVal * m_maxD is exact.
RECURSIVE PartialSum(_, _)
PartialSum(d, i) == IF i = 0 THEN d[0] ELSE PartialSum(d, i - 1) + d[i]

\* the sampler as the lights loop of commitScene leaves it: setCount, then
\* setDistance for every light
InitLights ==
    /\ m_pParams \in [numberOfCores : {1}, cameraBouncesN : {0}, lightBouncesN : {0},
                      maxPathLength : {0}, samplesPerPixel : {1}]
    /\ m_iLightsN = 0
    /\ m_pBackground = FALSE
    /\ IdleRender
    /\ IdlePath
    /\ IdleIsect
    /\ IdleScene
    /\ IdleCamera
    /\ IdleAttenuation
    /\ IdleFC
    /\ m_iN \in 0 .. MaxSampledLights
    /\ m_maxD = 0
    /\ m_distances \in [0 .. (m_iN - 1) -> 0 .. MaxPower]
    /\ powers = m_distances
    /\ lsPc = "set"
    /\ rndVal = 0
    /\ sampleId = -1
    /\ samplePdf = [num |-> 0, den |-> 1]

\* if (m_iLightsN>0) m_lightsSampler.calculate();
calculate ==
    /\ lsPc = "set"
    /\ IF m_iN > 0
       THEN /\ m_distances' = [i \in 0 .. (m_iN - 1) |-> PartialSum(m_distances, i)]
            /\ m_maxD' = m_distances'[m_iN - 1]
       ELSE UNCHANGED <<m_distances, m_maxD>>
    /\ lsPc' = "calculated"
    /\ UNCHANGED <<cfgVars, renderVars, pathVars, isectVars, sceneVars, cameraVars, attVars, fcVars,
                   m_iN, powers, rndVal, sampleId, samplePdf>>

\* m_distances[i] in the unit of d
Distance(i) == m_distances[i] * RndDen

RECURSIVE Search(_, _, _)
Search(L, R, d) ==
    IF L < R
    THEN LET C == (L + R) \div 2
         IN  IF d <= Distance(C) THEN Search(L, C, d) ELSE Search(C + 1, R, d)
    ELSE (L + R) \div 2

getValue(d) ==
    IF m_iN <= 0 THEN -1
    ELSE IF m_iN = 1 THEN 0
    ELSE IF d <= Distance(0) THEN 0
    ELSE IF d >= Distance(m_iN - 2) THEN m_iN - 1
    ELSE Search(0, m_iN - 1, d)

getRandom(r) == getValue(r * m_maxD)

\* a float quotient num / den; 0 / 0 is NaN
getPdfOfCdf(sample) ==
    IF sample < 0 \/ sample >= m_iN THEN [num |-> 0, den |-> 1]
    ELSE [num |-> m_distances[sample], den |-> m_maxD]

getPdf(sample) ==
    IF sample < 0 \/ sample >= m_iN THEN [num |-> 0, den |-> 1]
    ELSE [num |-> m_distances[sample] - (IF sample > 0 THEN m_distances[sample - 1] ELSE 0),
          den |-> m_maxD]

sampleLight ==
    /\ lsPc \in {"calculated", "sampled"}
    /\ \E r \in 0 .. (RndDen - 1) :
          LET id == getRandom(r)
          IN  /\ rndVal' = r
              /\ sampleId' = id
              /\ samplePdf' = getPdf(id)
    /\ lsPc' = "sampled"
    /\ UNCHANGED <<cfgVars, renderVars, pathVars, isectVars, sceneVars, cameraVars, attVars, fcVars,
                   m_iN, m_maxD, m_distances, powers>>

NextLights == calculate \/ sampleLight

SpecLights == InitLights /\ [][NextLights]_vars

\* ------------------------------------------------ PinholeCamera: init, hit, stop
\* One colour channel; a colour is the quotient num / den of naturals.
Pixel(n, d, alpha) == [rgb |-> [num |-> n, den |-> d], a |-> alpha]

PixelIds == 0 .. (MaxPixels - 1)

\* PinholeCamera::PinholeCamera: new fvec4[m_iWidth*m_iHeight] leaves the
\* image as the allocator gave it
InitCamera ==
    /\ m_pParams \in [numberOfCores : {1}, cameraBouncesN : {0}, lightBouncesN : {0},
                      maxPathLength : {0}, samplesPerPixel : {1}]
    /\ m_iLightsN = 0
    /\ m_pBackground = FALSE
    /\ IdleRender
    /\ IdlePath
    /\ IdleIsect
    /\ IdleScene
    /\ IdleSampler
    /\ IdleAttenuation
    /\ IdleFC
    /\ m_pImage \in [PixelIds -> {Pixel(0, 1, 0), Pixel(1, 1, 2)}]
    /\ camPc = "new"
    /\ hitRads = [id \in PixelIds |-> <<>>]

cameraFrame == UNCHANGED <<cfgVars, renderVars, pathVars, isectVars, sceneVars, samplerVars, attVars, fcVars>>

\* std::memset(m_pImage, 0, ...)
init ==
    /\ camPc \in {"new", "stopped"}
    /\ m_pImage' = [id \in PixelIds |-> Pixel(0, 1, 0)]
    /\ hitRads' = [id \in PixelIds |-> <<>>]
    /\ camPc' = "init"
    /\ cameraFrame

rangeCheck(index, begin, end) == begin <= index /\ index < end

\* the number of hit() calls that reached pixels 0 .. id
RECURSIVE HitsUpTo(_)
HitsUpTo(id) == IF id < 0 THEN 0 ELSE Len(hitRads[id]) + HitsUpTo(id - 1)

\* hit(radiance, ray, outRay) with outRay->getIndex() = id, or outRay = nullptr
hit ==
    /\ camPc = "init"
    /\ \E outRay \in BOOLEAN, id \in -1 .. MaxPixels, rad \in 0 .. MaxRadiance :
          IF outRay /\ rangeCheck(id, 0, MaxPixels)
          THEN /\ HitsUpTo(MaxPixels - 1) < MaxHits
               /\ m_pImage' = [m_pImage EXCEPT ![id] =
                                  Pixel(@.rgb.num + rad * @.rgb.den, @.rgb.den, @.a + 1)]
               /\ hitRads' = [hitRads EXCEPT ![id] = Append(@, rad)]
          ELSE UNCHANGED <<m_pImage, hitRads>>
    /\ camPc' = "init"
    /\ cameraFrame

ScaleAlwaysOne(alpha) == [num |-> 1, den |-> 1]
\* scale = p[3] < 0.5f ? 1.0f : 1.0f / p[3]
Scale(alpha) == IF 2 * alpha < 1 THEN [num |-> 1, den |-> 1] ELSE [num |-> 1, den |-> alpha]

stop ==
    /\ camPc = "init"
    /\ m_pImage' = [id \in PixelIds |->
                      LET p == m_pImage[id]
                          scale == Scale(p.a)
                      IN  Pixel(p.rgb.num * scale.num, p.rgb.den * scale.den, 1)]
    /\ camPc' = "stopped"
    /\ UNCHANGED hitRads
    /\ cameraFrame

NextCamera == init \/ hit \/ stop

SpecCamera == InitCamera /\ [][NextCamera]_vars

\* ------------------------------------------------ computeLightAttenuation
\* A distance is the quotient of its numerator and DistDen. A float value is
\* [num, den, root]: num / den, or its square root when root is TRUE; all
\* values are non-negative.
FLT_MAX == 1000
Value(n, d, r) == [num |-> n, den |-> d, root |-> r]
NotRendered == Value(-1, 1, FALSE)

\* the square of a value, as a pair <<num, den>>
Square(v) == IF v.root THEN <<v.num, v.den>> ELSE <<v.num * v.num, v.den * v.den>>
\* a < b for non-negative values
Less(a, b) == Square(a)[1] * Square(b)[2] < Square(b)[1] * Square(a)[2]

computeLightAttenuationModeIgnored(d, attD) ==
    IF attD >= FLT_MAX THEN Value(1, 1, FALSE)
    ELSE IF d < attD THEN Value(1, 1, FALSE) ELSE Value(0, 1, FALSE)
\* computeLightAttenuation(d, attD) under the mode of the render that starts
computeLightAttenuation(d, attD) ==
    IF attD >= FLT_MAX
    THEN LET dc == IF d < lightMinDistance THEN lightMinDistance ELSE d
         IN  CASE lightDistanceAttenuation' = 1 -> Value(DistDen, dc, FALSE)
               [] lightDistanceAttenuation' = 2 -> Value(DistDen * DistDen, dc * dc, FALSE)
               [] OTHER -> Value(1, 1, FALSE)
    ELSE LET rD == max(attD - d, 0)
         IN  CASE lightDistanceAttenuation' = 1 -> Value(rD, attD, FALSE)
               [] lightDistanceAttenuation' = 2 -> Value(rD, attD, TRUE)
               [] OTHER -> IF d < attD THEN Value(1, 1, FALSE) ELSE Value(0, 1, FALSE)

\* lRad * lsc, or nothing when its intensity is below rayCutPixValue
ConnectLight(lRad, lsc) ==
    LET lcRad == IF lsc.root THEN Value(lRad * lRad * lsc.num, lsc.den, TRUE)
                 ELSE Value(lRad * lsc.num, lsc.den, FALSE)
    IN  IF Less(lcRad, Value(RayCutPixValue, 1, FALSE)) THEN Value(0, 1, FALSE) ELSE lcRad

\* one scene: a light, its range, and a hit pixel whose only light is the
\* unoccluded connection of its surface point to the light
InitAttenuation ==
    /\ m_pParams \in [numberOfCores : {1}, cameraBouncesN : {0}, lightBouncesN : {0},
                      maxPathLength : {0}, samplesPerPixel : {1}]
    /\ m_iLightsN = 0
    /\ m_pBackground = FALSE
    /\ IdleRender
    /\ IdlePath
    /\ IdleIsect
    /\ IdleScene
    /\ IdleSampler
    /\ IdleCamera
    /\ IdleFC
    /\ lightDistanceAttenuation = 1
    /\ lightMinDistance = 1
    /\ attDist \in 0 .. (MaxDist * DistDen)
    /\ attRange \in (1 .. (MaxDist * DistDen)) \cup {FLT_MAX}
    /\ attLight \in 1 .. MaxRadiance
    /\ pixRad = [mode \in 0 .. 2 |-> NotRendered]

\* render the pixel with lightDistanceAttenuation = mode
RenderWithMode ==
    /\ \E mode \in 0 .. 2 :
          /\ lightDistanceAttenuation' = mode
          /\ pixRad' = [pixRad EXCEPT ![mode] =
                           ConnectLight(attLight, computeLightAttenuation(attDist, attRange))]
    /\ UNCHANGED <<cfgVars, renderVars, pathVars, isectVars, sceneVars, samplerVars, cameraVars, fcVars,
                   lightMinDistance, attDist, attRange, attLight>>

NextAttenuation == RenderWithMode

SpecAttenuation == InitAttenuation /\ [][NextAttenuation]_vars

\* ------------------------------------------------ FCHandler, false-colour subjects
\* A hashed colour is an integer of three channels of ChannelMax + 1 values.
fcGetRed(rgb) == (rgb \div ((ChannelMax + 1) * (ChannelMax + 1))) % (ChannelMax + 1)
fcGetGreen(rgb) == (rgb \div (ChannelMax + 1)) % (ChannelMax + 1)
fcGetBlue(rgb) == rgb % (ChannelMax + 1)
\* BDPT_MISSING_MATERIAL_COLOR (1000, 0, 1000): red and blue far above any
\* channel a subject paints
MissingMaterialColor == [missing |-> TRUE, r |-> ChannelMax, g |-> 0, b |-> ChannelMax]

\* Enumerator(i) for an int i
Enumerator(i) == i % EnumeratorRange

\* the subjects a provider can make
SubjectNames == {"pid", "gid", "mid"}
EmptySubject == [name |-> "empty", m_vHashedColors |-> <<>>]

\* EnumeratedFCSubject(categorySize): categorySize different colours out of
\* 1 .. 0xFFFFFF, in any order
HashedColors(categorySize) ==
    {q \in [1 .. categorySize -> 1 .. ((ChannelMax + 1) * (ChannelMax + 1) * (ChannelMax + 1) - 1)] :
        \A i, j \in 1 .. categorySize : i # j => q[i] # q[j]}

\* m_vHashedColors[id], or Enumerator{} for an id outside the category
HashedColor(subject, id) ==
    IF id < Len(subject.m_vHashedColors) THEN subject.m_vHashedColors[id + 1] ELSE 0

\* EnumeratedFCSubject::paint
EnumeratedPaint(subject, id) ==
    LET n == HashedColor(subject, id) IN Color(fcGetRed(n), fcGetGreen(n), fcGetBlue(n))

MaterialIDPaintAllChannels(subject, id) ==
    IF id # Enumerator(-1)
    THEN LET n == HashedColor(subject, id) IN Color(fcGetRed(n), fcGetGreen(n), fcGetBlue(n))
    ELSE MissingMaterialColor
\* MaterialIDFC::paint
MaterialIDPaint(subject, id) ==
    IF id # Enumerator(-1)
    THEN LET n == HashedColor(subject, id) IN Color(0, fcGetGreen(n), fcGetBlue(n))
    ELSE MissingMaterialColor

\* subject->paint(a, color), by the dynamic type of the subject
Paint(subject, id) ==
    CASE subject.name = "empty" -> Black
      [] subject.name = "mid" -> MaterialIDPaint(subject, id)
      [] OTHER -> EnumeratedPaint(subject, id)

FindIfNeverMatches(list, name, i) == Len(list) + 1
\* std::find_if over the providers from position i: the position of the first
\* provider whose subject has the name, Len(list) + 1 for list.end()
RECURSIVE FindIf(_, _, _)
FindIf(list, name, i) ==
    IF i > Len(list) THEN i
    ELSE IF list[i] = name THEN i
    ELSE FindIf(list, name, i + 1)

InitFC ==
    /\ m_pParams \in [numberOfCores : {1}, cameraBouncesN : {0}, lightBouncesN : {0},
                      maxPathLength : {0}, samplesPerPixel : {1}]
    /\ m_iLightsN = 0
    /\ m_pBackground = FALSE
    /\ IdleRender
    /\ IdlePath
    /\ IdleIsect
    /\ IdleScene
    /\ IdleSampler
    /\ IdleCamera
    /\ IdleAttenuation
    /\ IdleFC

\* the lists of providers, each named by the subject it makes (made with the
\* default category size 0), and the names asked for
ProviderLists == UNION {[1 .. n -> SubjectNames \cup {"dummy"}] : n \in 0 .. MaxProviders}
RequestedNames == SubjectNames \cup {"dummy", "empty", "none"}

\* fcSetSubject(fchandler, name, list)
fcSetSubject ==
    /\ \E name \in RequestedNames, list \in ProviderLists :
          LET found == FindIf(list, name, 1)
          IN  /\ m_pSubject' = IF found # Len(list) + 1
                               THEN [name |-> list[found], m_vHashedColors |-> <<>>]
                               ELSE EmptySubject
              /\ fcName' = name
              /\ fcList' = list
    /\ UNCHANGED <<fcArg, fcColor>>
    /\ UNCHANGED <<cfgVars, renderVars, pathVars, isectVars, sceneVars, samplerVars, cameraVars, attVars>>

\* FCHandler::setEmpty
setEmpty ==
    /\ m_pSubject' = EmptySubject
    /\ fcName' = "empty"
    /\ fcList' = <<>>
    /\ UNCHANGED <<fcArg, fcColor>>
    /\ UNCHANGED <<cfgVars, renderVars, pathVars, isectVars, sceneVars, samplerVars, cameraVars, attVars>>

\* the Enumerators given to paint: -1 and the ids around the category
PaintArgs == {Enumerator(i) : i \in -1 .. (MaxCategory + 1)}

\* getSubject()->paint(a, color)
paint ==
    /\ m_pSubject # NoSubject
    /\ \E id \in PaintArgs :
          /\ fcArg' = id
          /\ fcColor' = Paint(m_pSubject, id)
    /\ UNCHANGED <<m_pSubject, fcName, fcList>>
    /\ UNCHANGED <<cfgVars, renderVars, pathVars, isectVars, sceneVars, samplerVars, cameraVars, attVars>>

NextFC == fcSetSubject \/ setEmpty \/ paint

SpecFC == InitFC /\ [][NextFC]_vars

\* MaterialIDFC subject(categorySize)
MaterialIDFC ==
    /\ m_pSubject = NoSubject
    /\ \E categorySize \in 0 .. MaxCategory :
          \E colors \in HashedColors(categorySize) :
             m_pSubject' = [name |-> "mid", m_vHashedColors |-> colors]
    /\ UNCHANGED <<fcName, fcList, fcArg, fcColor>>
    /\ UNCHANGED <<cfgVars, renderVars, pathVars, isectVars, sceneVars, samplerVars, cameraVars, attVars>>

NextMaterialID == MaterialIDFC \/ paint

SpecMaterialID == InitFC /\ [][NextMaterialID]_vars

\* ============================================================ claims: sceneIntersect
NonMaskedInRange == {t \in DOMAIN surfaces : surfaces[t] # "masked" /\ t <= t1}
FirstNonMasked == CHOOSE t \in NonMaskedInRange : \A u \in NonMaskedInRange : t <= u
MaskedBefore(t) == Cardinality({u \in 1 .. (t - 1) : surfaces[u] # "opaque"})

\* C5 (as stated): sceneIntersect reports the first non-masked surface within
\* the ray's range however many masked surfaces precede it, and never reports
\* a masked surface.
C5_FirstNonMaskedAlwaysReported ==
    ipc = "returned" =>
        /\ iresult.hit => ~iresult.masked
        /\ IF NonMaskedInRange = {} THEN ~iresult.hit
           ELSE iresult.hit /\ iresult.t = FirstNonMasked

\* C5 (amended): sceneIntersect never reports a masked surface and never a
\* surface outside the ray's range; it reports the first non-masked surface
\* within the range whenever fewer than maxItr (10) masked surfaces precede it
\* and no masked surface lies within the skip margin
\* m_fEpsAcc*fEpsilon*max(|hit point|, 1, t) in front of it; with no
\* non-masked surface in range it reports no hit.
C5_FirstNonMaskedWithinCap ==
    ipc = "returned" =>
        /\ iresult.hit => ~iresult.masked /\ iresult.t \in NonMaskedInRange
        /\ NonMaskedInRange = {} => ~iresult.hit
        /\ ( /\ NonMaskedInRange # {}
             /\ surfaces[FirstNonMasked] = "opaque"
             /\ MaskedBefore(FirstNonMasked) < maxItr )
           => iresult.hit /\ iresult.t = FirstNonMasked

\* a surface is reported after the largest number of masked surfaces the loop skips
C5_Witness ==
    /\ ipc = "returned"
    /\ iresult.hit
    /\ iresult.t = FirstNonMasked
    /\ MaskedBefore(iresult.t) = maxItr - 1

\* ============================================================ claims: commitScene
AfterCommit == lastOp = "commitScene"
AllInstancesInvalid == \A i \in DOMAIN m_pInstances : m_pInstances[i] = -1
RefersToMaterial(m) == MatIdInRange(m.m_iMatId) /\ m_ppMaterials[m.m_iMatId] # "null"

\* C8 (as stated): with the acceleration engine available, commitScene returns
\* failure exactly when all instances end up invalid, and returns success as
\* soon as one instance is valid.
C8_FailsExactlyWhenAllInstancesInvalid ==
    (AfterCommit /\ m_embreeDevice) =>
        IF AllInstancesInvalid THEN commitRet = "false" ELSE commitRet = "true"

\* C9 (as stated): every commitScene call that returns false has appended at
\* least one entry to the log the caller supplied.
C9_FalseReturnIsLogged ==
    (AfterCommit /\ hasLog /\ commitRet = "false") => Len(log) >= 1

\* C10 (as stated): after commitScene every mesh's material index refers to a
\* bound material or to the missing-material slot.
C10_EveryMeshRefersToMaterial ==
    (AfterCommit /\ commitRan) =>
        \A i \in DOMAIN m_pMeshes : RefersToMaterial(m_pMeshes[i])

\* C10 (amended): after a commitScene call that runs the commit (the scene was
\* not committed before), every valid mesh's material index refers to a bound
\* material or to the missing-material slot; a mesh found invalid is reset,
\* its material index is -1, and it gets no acceleration geometry, so every
\* instance attached to the acceleration structure leads to a material.
C10_ValidMeshRefersToMaterial ==
    (AfterCommit /\ commitRan) =>
        /\ \A i \in DOMAIN m_pMeshes :
              IF isValid(m_pMeshes[i])
              THEN RefersToMaterial(m_pMeshes[i])
              ELSE m_pMeshes[i].m_iMatId = -1 /\ ~m_pMeshes[i].m_embreeScene
        /\ \A k \in DOMAIN m_embreeScene :
              /\ isValid(m_pMeshes[m_embreeScene[k]])
              /\ RefersToMaterial(m_pMeshes[m_embreeScene[k]])

\* a scene with every material slot bound is committed and an attached
\* instance leads to the missing-material slot
C10_Witness ==
    /\ AfterCommit /\ commitRan /\ commitRet = "true"
    /\ m_iMaterialsN >= 2
    /\ ~NullSlotWritten
    /\ \E k \in DOMAIN m_embreeScene :
          m_pMeshes[m_embreeScene[k]].m_iMatId = m_iMaterialsN - 1

C12_MissingMaterialSlotKept ==
    m_iMaterialsN > 0 =>
        /\ DOMAIN m_ppMaterials = 0 .. m_iMaterialsN
        /\ m_ppMaterials[m_iMaterialsN - 1] = "missing"

\* every real slot has been bound through setMaterial and the stand-in is in place
C12_Witness ==
    /\ lastOp = "set"
    /\ m_iMaterialsN >= 2
    /\ \A i \in 0 .. (m_iMaterialsN - 2) : m_ppMaterials[i] = "material"
    /\ m_ppMaterials[m_iMaterialsN - 1] = "missing"

\* ============================================================ claims: commitScene log
\* the material of mesh m is unresolved: its index is outside the array or
\* names an unbound slot
Unresolved(m) == ~RefersToMaterial(m)

\* C14 (as stated): whenever commitScene substitutes the missing-material for
\* a mesh whose material is unresolved, it appends a log entry for that mesh.
C14_SubstitutionIsLogged ==
    [][(lastOp' = "commitScene" /\ commitRan' /\ hasLog') =>
          \A i \in DOMAIN m_pMeshes :
             Unresolved(m_pMeshes[i]) =>
                \E e \in 1 .. Len(log') :
                   log'[e] = <<"mesh refers to undefined material", i>>]_vars

\* ============================================================ claims: commitScene twice
\* two commitScene calls in a row, each given a log, both of which returned
TwoCommitsInARow ==
    /\ lastOp = "commitScene" /\ commitRet # "none" /\ hasLog
    /\ lastOp' = "commitScene" /\ commitRet' # "none" /\ hasLog'

MeshValidity == [i \in DOMAIN m_pMeshes |-> isValid(m_pMeshes[i])]

\* C15 (as stated): the second of two commitScene calls in a row yields the
\* same acceleration structure, the same return value, the same mesh and
\* instance validity and the same log output as the first.
C15_SecondCommitSameLog ==
    [][TwoCommitsInARow =>
          /\ m_embreeScene' = m_embreeScene
          /\ commitRet' = commitRet
          /\ MeshValidity' = MeshValidity
          /\ m_pInstances' = m_pInstances
          /\ log' = log]_vars

\* C15 (amended): the second of two commitScene calls in a row yields the
\* same acceleration structure, the same return value and the same mesh and
\* instance validity as the first; its log output is not the same: after a
\* successful first call it returns at once, touching neither scene nor log,
\* and after a failed first call it appends only entries the first call
\* appended too.
C15_SecondCommitSameResult ==
    [][TwoCommitsInARow =>
          /\ m_embreeScene' = m_embreeScene
          /\ commitRet' = commitRet
          /\ MeshValidity' = MeshValidity
          /\ m_pInstances' = m_pInstances
          /\ commitRet = "true" => (log' = <<>> /\ ~commitRan' /\ m_pMeshes' = m_pMeshes)
          /\ \A e \in 1 .. Len(log') : \E f \in 1 .. Len(log) : log[f] = log'[e]]_vars

\* commitScene was called again on a scene that is built and has an instance attached
C15_Witness ==
    /\ AfterCommit /\ ~commitRan /\ commitRet = "true" /\ hasLog
    /\ DOMAIN m_embreeScene # {}

\* ============================================================ claims: sampleLight
Sampled == lsPc = "sampled" /\ m_iN >= 1
TotalPower == PartialSum(powers, m_iN - 1)
\* light k's CDF interval, in the unit of d
CdfLow(k) == IF k = 0 THEN 0 ELSE PartialSum(powers, k - 1) * RndDen
CdfHigh(k) == PartialSum(powers, k) * RndDen
SampledD == rndVal * TotalPower
PdfIsShare(k) == samplePdf.den # 0 /\ samplePdf.num * TotalPower = powers[k] * samplePdf.den

\* C17 (as stated): getRandom(r) returns k exactly when r times the total
\* power falls in light k's CDF interval [CDF(k-1), CDF(k)), and the pdf
\* reported with the light is pk / total.
C17_SelectedExactlyInInterval ==
    Sampled =>
        /\ \A k \in 0 .. (m_iN - 1) :
              (sampleId = k) <=> (CdfLow(k) <= SampledD /\ SampledD < CdfHigh(k))
        /\ PdfIsShare(sampleId)

\* C17 (amended): the light returned is one whose closed CDF interval holds
\* r * total, and it is light k whenever r * total lies strictly inside light
\* k's interval, so light k is selected with probability pk / total; on a
\* boundary the first light is kept up to and including CDF(0), the last one
\* from CDF(N-2) on, and otherwise the lowest light whose CDF reaches
\* r * total. The pdf reported is pk / total when the total is positive and
\* 0 / 0 when it is zero.
C17_SelectedWithinClosedInterval ==
    Sampled =>
        /\ sampleId \in 0 .. (m_iN - 1)
        /\ CdfLow(sampleId) <= SampledD /\ SampledD <= CdfHigh(sampleId)
        /\ \A k \in 0 .. (m_iN - 1) :
              (CdfLow(k) < SampledD /\ SampledD < CdfHigh(k)) => sampleId = k
        /\ sampleId = IF m_iN = 1 \/ SampledD <= CdfHigh(0) THEN 0
                      ELSE IF SampledD >= CdfHigh(m_iN - 2) THEN m_iN - 1
                      ELSE CHOOSE k \in 0 .. (m_iN - 1) :
                              /\ SampledD <= CdfHigh(k)
                              /\ \A i \in 0 .. (k - 1) : SampledD > CdfHigh(i)
        /\ IF TotalPower > 0
           THEN PdfIsShare(sampleId)
           ELSE samplePdf = [num |-> 0, den |-> 0]

\* a light in the middle of four is selected on the upper end of its interval
C17_Witness ==
    /\ Sampled /\ m_iN = 4 /\ sampleId = 1
    /\ powers[1] > 0 /\ powers[2] > 0
    /\ SampledD = CdfHigh(1)

\* ============================================================ claims: PinholeCamera
RECURSIVE SeqSum(_)
SeqSum(q) == IF q = <<>> THEN 0 ELSE q[1] + SeqSum(Tail(q))

\* C20: after init(), n calls of hit() with radiances r1..rn on a pixel and
\* then stop() leave the pixel's colour equal to (r1+...+rn)/n when n >= 1
\* and zero when n = 0, with the alpha channel set to 1.
C20_StopAveragesHits ==
    camPc = "stopped" =>
        \A id \in PixelIds :
            LET n == Len(hitRads[id])
                c == m_pImage[id].rgb
            IN  /\ m_pImage[id].a = 1
                /\ c.den # 0
                /\ IF n >= 1
                   THEN c.num * n = SeqSum(hitRads[id]) * c.den
                   ELSE c.num = 0

\* one pixel got two different radiances and another pixel none
C20_Witness ==
    /\ camPc = "stopped"
    /\ \E id, other \in PixelIds :
          /\ Len(hitRads[id]) >= 2
          /\ hitRads[id][1] # hitRads[id][2]
          /\ hitRads[other] = <<>>

\* ============================================================ claims: after the commit
\* what the renderer reads of the scene besides the acceleration structure
RenderedData == <<m_pMeshes, m_pInstances, m_ppMaterials, m_ppLights>>

\* C16 (as stated): after a successful commitScene no setter call changes
\* scene data that rendering reads.
C16_ImmutableAfterCommit ==
    [][(m_bTraceReady /\ lastOp' = "set") => UNCHANGED RenderedData]_vars

\* ============================================================ claims: setters
\* the scene as its users see it
SceneData == <<m_iMeshesN, m_pMeshes, m_iInstancesN, m_pInstances, m_iMaterialsN,
               m_ppMaterials, m_iLightsN, m_ppLights, m_embreeScene, m_bTraceReady, spc>>

\* a call of a scene setter with an index outside the allocated range
OutOfRangeSceneSetterCall ==
    \/ \E meshId \in {-1, m_iMeshesN}, g \in Geometries, matId \in MatIdInputs :
          setMeshCall(meshId, g, matId)
    \/ \E instId \in {-1, m_iInstancesN}, meshId \in -1 .. m_iMeshesN :
          setInstanceCall(instId, meshId)
    \/ \E matId \in {-1, m_iMaterialsN - 1, m_iMaterialsN} : setMaterialCall(matId)
    \/ \E lightId \in {-1, m_iLightsN} : setLightCall(lightId)

\* a call of a mesh setter with an index outside the mesh's buffers
OutOfRangeMeshSetterCall ==
    \E meshId \in 0 .. (m_iMeshesN - 1) :
       \/ \E vid \in {-1, m_pMeshes[meshId].m_iVN} : setVertexCall(meshId, vid)
       \/ \E fid \in {-1, m_pMeshes[meshId].m_iFN} : setFaceCall(meshId, fid)

\* C13 (as stated): a scene or mesh setter called with an out-of-range index
\* writes nothing and raises no error; the scene is afterwards as it was before.
C13_OutOfRangeSetterIsNoOp ==
    [][(CanSet /\ (OutOfRangeSceneSetterCall \/ OutOfRangeMeshSetterCall))
          => UNCHANGED SceneData]_vars

\* ============================================================ claims: render
Writers(loc) == {w[2] : w \in {x \in writes : x[1] = loc}}
Locations == {w[1] : w \in writes}
AllExited == \A t \in 0 .. (m_iCoresN - 1) : thr[t].pc = "exited"

\* C1: within one render invocation every image row in [0, imageHeight) is
\* claimed by exactly one render thread: no row is ever claimed twice (by the
\* same or by another thread), and once all threads have left their claim
\* loop every row has been claimed exactly once.
C1_ExclusiveRowOwnership ==
    /\ \A r \in DOMAIN rowClaims : Len(rowClaims[r]) <= 1
    /\ (mainPc \in {"join", "done"} /\ AllExited)
          => \A r \in DOMAIN rowClaims : Len(rowClaims[r]) = 1

\* two threads raced on the counter and each ended up with a row of its own
C1_Witness ==
    /\ mainPc = "done"
    /\ m_iCoresN >= 2
    /\ \E r1, r2 \in DOMAIN rowClaims :
          /\ Len(rowClaims[r1]) = 1 /\ Len(rowClaims[r2]) = 1
          /\ rowClaims[r1][1] # rowClaims[r2][1]
          /\ r1 < r2 /\ rowClaims[r1][1] > rowClaims[r2][1]

\* C2 (as stated): the only location written by more than one render thread is
\* the atomic row counter (the image is written in row-owned, disjoint pixels);
\* the scene's random sampler is only read.
C2_OnlyCounterAndImageWritten ==
    \A loc \in Locations : Cardinality(Writers(loc)) >= 2 => loc[1] = "m_aiCurRow"

\* C3: no element of the path memory is touched by more than one thread; each
\* thread tid touches only its own camera buffer of cameraBouncesN+1 entries
\* and its own light buffer of lightBouncesN+1 entries, and these regions are
\* pairwise disjoint and inside the allocation.
CPRegion(t) == m_ppCPBuf[t] .. (m_ppCPBuf[t] + m_pParams.cameraBouncesN)
LPRegion(t) == m_ppLPBuf[t] .. (m_ppLPBuf[t] + m_pParams.lightBouncesN)
PathTouches == {w \in writes : w[1][1] = "m_pPathMem"}

C3_PathBuffersDisjoint ==
    /\ \A w1, w2 \in PathTouches : w1[1] = w2[1] => w1[2] = w2[2]
    /\ mainPc \in {"spawn", "join"} =>
          /\ \A w \in PathTouches :
                /\ w[1][2] \in CPRegion(w[2]) \cup LPRegion(w[2])
                /\ w[1][2] >= 0 /\ w[1][2] < m_pPathMem
          /\ \A ta, tb \in 0 .. (m_iCoresN - 1) :
                /\ CPRegion(ta) \cap LPRegion(tb) = {}
                /\ ta # tb => /\ CPRegion(ta) \cap CPRegion(tb) = {}
                              /\ LPRegion(ta) \cap LPRegion(tb) = {}

\* two threads have each filled their camera and light buffers to the last entry
C3_Witness ==
    /\ mainPc = "join"
    /\ m_iCoresN >= 2
    /\ m_pParams.cameraBouncesN >= 1 /\ m_pParams.lightBouncesN >= 1
    /\ \A t \in 0 .. 1 :
          /\ <<<<"m_pPathMem", m_ppCPBuf[t] + m_pParams.cameraBouncesN>>, t>> \in writes
          /\ <<<<"m_pPathMem", m_ppLPBuf[t] + m_pParams.lightBouncesN>>, t>> \in writes

\* ============================================================ claims: render threads
ThreadCount ==
    IF m_pParams.numberOfCores < 1 THEN 1
    ELSE IF m_pParams.numberOfCores > sensor.height THEN sensor.height
    ELSE m_pParams.numberOfCores
Created == {t \in Tids : thr[t].pc # "unborn"}
Running == {t \in Tids : thr[t].pc \in {"claim", "sample"}}
RowRendered(row) ==
    /\ Len(rowClaims[row]) = 1
    /\ \A j \in 0 .. (sensor.width - 1) :
          sensor.m_pImage[row * sensor.width + j] = m_pParams.samplesPerPixel
RenderReturned ==
    /\ mainPc = "done"
    /\ \A row \in 0 .. (sensor.height - 1) : RowRendered(row)
    /\ Running = {}

\* C18: every render invocation runs to completion: every row is eventually
\* claimed and fully rendered, every render thread eventually leaves its
\* row-claim loop, and render returns.
C18_RenderRunsToCompletion == (mainPc = "spawn") ~> RenderReturned

\* render has returned after two threads shared the rows of the image
C18_Witness ==
    /\ RenderReturned
    /\ m_iCoresN = 2
    /\ \E r1, r2 \in DOMAIN rowClaims : rowClaims[r1] = <<0>> /\ rowClaims[r2] = <<1>>

\* C19: each render invocation spawns exactly clamp(numberOfCores, 1,
\* imageHeight) render threads, creates them once, and has joined all of them
\* when render returns, so no render thread outlives the invocation.
C19_ThreadsCreatedOnceAndJoined ==
    /\ Created = 0 .. (spawned - 1)
    /\ mainPc # "idle" => (m_iCoresN = ThreadCount /\ spawned <= ThreadCount)
    /\ mainPc \in {"join", "done"} => spawned = ThreadCount
    /\ joined <= spawned
    /\ \A t \in 0 .. (joined - 1) : thr[t].pc = "exited"
    /\ mainPc = "done" => (joined = ThreadCount /\ Running = {})

\* render has returned; the core count asked for was above the image height,
\* and the one thread created has rendered the image and was joined
C19_Witness ==
    /\ mainPc = "done"
    /\ m_pParams.numberOfCores > sensor.height
    /\ joined = sensor.height
    /\ \A row \in 0 .. (sensor.height - 1) : rowClaims[row] = <<0>>

\* ============================================================ claims: samples per pixel
AllThreadsFinished ==
    /\ mainPc = "join"
    /\ \A t \in Tids : t < m_iCoresN => thr[t].pc = "exited"

ThreadActs == \E t \in Tids : thr'[t] # thr[t] /\ thr[t].pc \in {"claim", "sample"}
NothingClaimed == \A r \in DOMAIN rowClaims : rowClaims[r] = <<>>

\* C26: within render, sensor init() and the reset of the row counter happen
\* before any thread's first row claim or hit(); stop() and the release of
\* the path buffers happen only after every render thread has terminated; no
\* thread touches the image or a path buffer after normalization or release.
C26_InitFirstStopLast ==
    [][/\ ThreadActs => mainPc \in {"spawn", "join"} /\ mainPc' = mainPc /\ m_ppCPBuf # <<>>
       /\ ThreadActs /\ NothingClaimed =>
             /\ m_aiCurRow = 0
             /\ \A id \in DOMAIN sensor.m_pImage : sensor.m_pImage[id] = 0
       /\ mainPc = "join" /\ mainPc' = "done" =>
             \A t \in Tids : thr[t].pc \in {"unborn", "exited"} /\ thr'[t] = thr[t]
       /\ mainPc = "done" /\ mainPc' = "done" => UNCHANGED <<thr, sensor, writes, m_aiCurRow>>]_vars

\* the second render() call has returned after two threads rendered both rows
C26_Witness ==
    /\ mainPc = "done"
    /\ renders = 2
    /\ m_ppCPBuf = <<>>
    /\ \A t \in Tids : thr[t].pc = "exited"
    /\ rowClaims[0] = <<0>> /\ rowClaims[1] = <<1>>

\* ============================================================ claims: return value of computePath
\* computePath has returned; the path it traced and the bound of its loop
Traced == ppc = "traced"
TracedLen == IF lpsource THEN lp_len ELSE cp_len
TracedBuf == IF lpsource THEN lpBuf ELSE cpBuf
TracedMax == IF lpsource THEN m_pParams.lightBouncesN + 1 ELSE m_pParams.cameraBouncesN + 1
EndedByCount == TracedLen = TracedMax
EndedByCutoff ==
    /\ lpsource
    /\ TracedLen < TracedMax
    /\ TracedBuf[TracedLen].set
    /\ TracedBuf[TracedLen].m_outRad < RayCutPixValue

FrameModifiedFirst(P) ==
    \A i \in DOMAIN P : P[i].calls # <<>> => P[i].calls[1] = "modifyFrame"

\* C28: for every path vertex the material's modifyFrame is applied to the
\* surface point before any getRayAndBrdf or getBrdf evaluation at that
\* vertex, the getBrdf calls of the connection of light and camera paths
\* included: those are made at camera vertices 1 .. cp_len - 1 only.
C28_ModifyFrameBeforeBrdf ==
    [][/\ FrameModifiedFirst(cpBuf') /\ FrameModifiedFirst(lpBuf')
       /\ considered' # considered =>
             /\ cj >= 1
             /\ cpBuf[cj].calls # <<>>
             /\ cpBuf[cj].calls[1] = "modifyFrame"]_vars

\* the second vertex of a camera path has been connected to the second
\* vertex of the light path
C28_Witness ==
    /\ ppc = "connect"
    /\ <<1, 2>> \in connected
    /\ cpBuf[2].calls = <<"modifyFrame", "getRayAndBrdf">>
    /\ lpBuf[1].calls = <<"modifyFrame", "getRayAndBrdf">>

\* ============================================================ claims: iteration cap
\* C29: every sceneIntersect call terminates after at most 10 intersection
\* queries, whatever the geometry and however many masked surfaces the ray
\* crosses: each query that does not end the call uses up one of the maxItr
\* iterations, and with none left the call returns.
C29_AtMostTenQueries ==
    /\ queries <= maxItr
    /\ ipc = "query" => queries + itr = maxItr
    /\ ipc = "query" /\ queries = maxItr => ENABLED IntersectGiveUp

\* the call has returned after ten queries that each hit a masked surface,
\* with an eleventh surface still ahead on the ray
C29_Witness ==
    /\ ipc = "returned"
    /\ queries = maxItr
    /\ ~missed
    /\ Len(surfaces) > maxItr
    /\ t1 > maxItr

\* ============================================================ claims: unbound slots
\* C30 (as stated): commitScene never dereferences an unbound slot: with a
\* material index in [0, materialCount) or a light index in [0, lightCount)
\* that no setter bound, commitScene still completes and returns a result.
C30_CommitCompletesWithUnboundSlot ==
    lastOp = "commitScene" => spc # "crashed" /\ commitRet \in {"true", "false"}

\* ============================================================ claims: false colours
Painted == fcColor' # fcColor \/ fcArg' # fcArg

\* C23: fcSetSubject installs, from the given provider list, the subject whose
\* name equals the requested name; if no provider matches it installs the
\* empty subject, which paints every argument black.
C23_SubjectByNameOrEmpty ==
    [][/\ (fcList' # fcList \/ fcName' # fcName) /\ fcName' # "empty" =>
             IF \E k \in DOMAIN fcList' : fcList'[k] = fcName'
             THEN m_pSubject'.name = fcName'
             ELSE m_pSubject' = EmptySubject
       /\ m_pSubject.name = "empty" /\ Painted => fcColor' = Black]_vars

\* no provider of the list made the subject asked for, and the subject
\* installed instead has painted the Enumerator of -1 black
C23_Witness ==
    /\ fcList # <<>>
    /\ fcName = "dummy"
    /\ \A k \in DOMAIN fcList : fcList[k] # fcName
    /\ m_pSubject = EmptySubject
    /\ fcArg = Enumerator(-1)
    /\ fcColor = Black

\* C24 (as stated): MaterialIDFC::paint gives the missing material (id -1)
\* the missing-material colour, every in-range id a non-black colour, and
\* every other id black.
C24_InRangeMaterialIsNotBlack ==
    [][m_pSubject.name = "mid" /\ Painted =>
          IF fcArg' = Enumerator(-1) THEN fcColor' = MissingMaterialColor
          ELSE IF fcArg' < Len(m_pSubject.m_vHashedColors) THEN fcColor' # Black
          ELSE fcColor' = Black]_vars

\* ============================================================ claims: light attenuation
BothRendered == pixRad[0] # NotRendered /\ pixRad[2] # NotRendered
Lit == Less(Value(0, 1, FALSE), pixRad[0])
Same(a, b) == ~Less(a, b) /\ ~Less(b, a)
LightDistance == IF attRange >= FLT_MAX /\ attDist < lightMinDistance THEN lightMinDistance ELSE attDist

AllPairs == {<<i, j>> \in (0 .. MaxBounces) \X (0 .. MaxBounces) : i < lp_len /\ j < cp_len}
\* the pairs the loops of computePaths go through
PairsWithinPathLength ==
    {p \in AllPairs : p[2] >= 1 /\ p[1] + p[2] <= m_pParams.maxPathLength}
ConnectionsDone == ppc \in {"scale", "done"} /\ lpsource

C4_RadianceIsAverage ==
    (ppc = "done" /\ contrib >= 1) => result.num * contrib = radiance * result.den

\* C6: with cameraBouncesN = k computePath never produces a camera sub-path of
\* more than k+1 entries (neither counted in cp_len nor written to the
\* buffer), and never more than lightBouncesN+1 entries for a light sub-path.
C6_PathLengthBounded ==
    /\ cp_len <= m_pParams.cameraBouncesN + 1
    /\ lp_len <= m_pParams.lightBouncesN + 1
    /\ Cardinality(Touched(cpBuf)) <= m_pParams.cameraBouncesN + 1
    /\ Cardinality(Touched(lpBuf)) <= m_pParams.lightBouncesN + 1

\* both sub-paths ran to the configured bounce limit
C6_Witness ==
    /\ ppc = "done"
    /\ m_pParams.cameraBouncesN >= 2 /\ cp_len = m_pParams.cameraBouncesN + 1
    /\ m_pParams.lightBouncesN >= 2 /\ lp_len = m_pParams.lightBouncesN + 1

\* C7: a light vertex i and a camera vertex j add radiance only if j >= 1 and
\* i + j <= maxPathLength.
C7_ConnectionsWithinPathLength ==
    \A p \in connected : p[2] >= 1 /\ p[1] + p[2] <= m_pParams.maxPathLength

\* a connection of exactly maxPathLength was made while longer pairs existed
C7_Witness ==
    /\ ppc = "done"
    /\ \E p \in connected : p[1] + p[2] = m_pParams.maxPathLength
    /\ (lp_len - 1) + (cp_len - 1) > m_pParams.maxPathLength

====
